---- MODULE Spec2Model ----
(***************************************************************************)
(* Generation orchestrator of danmaku-to-summary-ts                        *)
(* (src/src/scripts/ai_comic_generator.py, tuzi_chat_completions.py).      *)
(*                                                                         *)
(* One run of generate_comic_from_highlight is a single thread of control: *)
(* script cache -> build_comic_prompt -> generate_comic_content_with_ai    *)
(* (node helper, Gemini, tuZi text) -> script cache write -> image         *)
(* providers (call_google_image_api, call_tuzi_image_api) ->               *)
(* save_comic_result.  pc is the position of that thread.  A later run on  *)
(* the same transcript sees the files the earlier run left behind.         *)
(*                                                                         *)
(* Text is a sequence of tokens: "w" a visible character, "s" a whitespace *)
(* character, "E" the substring 'Gemini Error'.                            *)
(***************************************************************************)
EXTENDS Naturals, Sequences, FiniteSets, TLC

\* ---------------------------------------------------------------- bounds
MaxLen == 2            \* longest provider response text
MaxTranscriptLen == 2  \* longest transcript handed to generate_comic_content_with_ai
MaxRuns == 2           \* runs of generate_comic_from_highlight on one transcript
PollBudget == 3        \* the polling deadline (timeout), in poll intervals of 3 s
MaxFiles == 3          \* AI_HIGHLIGHT files found under the batch directory
MaxOrch == 2           \* orchestrations running at the same time
SuffixSpace == 2       \* values of uuid.uuid4().hex[:8] told apart

\* ------------------------------------------------------ program constants
max_gemini_retries == 3
\* The tuZi loop with one attempt too many.
max_tuzi_retries_off_by_one == 3 + 1
max_tuzi_retries == 3

\* ------------------------------------------------------------------ text
Char == {"w", "s", "E"}

Texts(n) == UNION {[1..k -> Char] : k \in 0..n}

\* Optional values: None is the empty tuple, Some(x) the one-element tuple.
None == <<>>
Some(x) == <<x>>
Val(o) == o[1]

RECURSIVE LStrip(_)
LStrip(t) == IF t = <<>> THEN t
             ELSE IF Head(t) = "s" THEN LStrip(Tail(t)) ELSE t

RECURSIVE RStrip(_)
RStrip(t) == IF t = <<>> THEN t
             ELSE IF t[Len(t)] = "s" THEN RStrip(SubSeq(t, 1, Len(t) - 1)) ELSE t

\* str.strip()
Strip(t) == RStrip(LStrip(t))

\* is_gemini_error(text): False for an empty text, else 'Gemini Error' in text
\* A check that never recognises the marker.
is_gemini_error_blind(text) == FALSE
is_gemini_error(text) == text # <<>> /\ \E i \in 1..Len(text) : text[i] = "E"

\* ------------------------------------------------------------- the state
VARIABLES
    cfg,          \* configuration and environment of the process
    transcript,   \* content of <base>_AI_HIGHLIGHT.txt
    precheck,     \* "ok" | "no_file" (transcript missing) | "room_disabled"
    cache,        \* <base>_COMIC_SCRIPT.txt: [exists, readable, text]
    run,          \* number of the current run, 1..MaxRuns
    pc,           \* position of the run
    use,          \* [google, tuzi]: the enabled flags read at line 1144-1145
    existing,     \* existing_comic handed to build_comic_prompt (Option)
    attempt,      \* gemini_attempt / tuzi_attempt of the loop being run
    lastResp,     \* raw text of the last provider response (Option)
    lastOutcome,  \* classification of the last text attempt
    delay,        \* seconds slept by the last step
    primaryCalls, \* generate_content requests issued in this run
    primaryTimeouts, \* of those, how many raised a timeout
    primaryEnd,   \* how the Gemini loop ended
    secondaryCalls,  \* tuZi chat-completions text requests issued in this run
    secondaryEnd, \* how the tuZi text loop ended
    scriptRet,    \* return value of generate_comic_content_with_ai (Option)
    comicText,    \* comic_text after build_comic_prompt (Option)
    isGenerated,  \* is_comic_generated after build_comic_prompt (Option)
    cacheWrites,  \* writes to the script cache in this run
    refReadable,  \* FALSE: the reference image exists but cannot be read
    googleCalls,  \* calls of call_google_image_api in this run
    googleRequests, \* requests sent to the Google image provider in this run
    tuziCalls,    \* calls of call_tuzi_image_api in this run
    comicResult,  \* comic_result: [src |-> "none"] or the artifact obtained
    models,       \* the model list of call_tuzi_image_api (line 925-930)
    outer,        \* index into models of the running loop iteration (line 933)
    modelsToTry,  \* models_to_try of call_tuzi_chat_completions_for_image
    inner,        \* index into modelsToTry (line 227)
    reqLog,       \* models of the chat-completions image requests sent, in order
    resp,         \* the 200 response whose async task is being polled
    probes,       \* encodings probed on the last response, in order
    pollElapsed,  \* time.time() - start_time, in poll intervals of 3 s
    lastPoll,     \* what the last evaluation of the polling loop came to
    polls,        \* GET requests sent to the task URL of the current task
    outFiles,     \* which candidates of <base>_COMIC_FACTORY.png exist
    escaped,      \* function an exception propagated out of, or "none"
    fs,           \* what get_room_reference_image finds in the configuration and on disk
    refRet,       \* what get_room_reference_image returned ("pending" before the call)
    pollIn,       \* a poll answer and download outcome handed to the polling iteration
    pollRet,      \* what the iteration made of pollIn ("pending" before)
    shots,        \* SCREENSHOT_PATH and the inferred screenshot file, for collect_all_images
    images,       \* the list collect_all_images returned
    main,         \* frame of main(): arguments, files found, calls made, exit status
    tmp,          \* the temporary directory: which orchestration's download a file holds
    orch,         \* concurrent orchestrations: position, temporary file, what was copied
    cfgAtStart,   \* the configuration as it was when the request started
    proxyCfg,     \* [gemini, tuzi]: whether aiServices.<provider>.proxy is set
    environ,      \* os.environ['http_proxy'] / ['https_proxy'] of the process
    tuziVia,      \* the proxy the last tuZi text request went through
    hf,           \* frame of try_simpler_model: models requested, position, return value
    gen,          \* frame of call_tuzi_image_generations: models requested, position, return value
    out,          \* the output directory and the runs that save into it
    result        \* return value of generate_comic_from_highlight once pc = "done":
                  \* 0 is None, k > 0 the k-th candidate of generate_unique_filename

textVars == <<attempt, lastResp, lastOutcome, primaryCalls, primaryTimeouts,
              primaryEnd, secondaryCalls, secondaryEnd, scriptRet>>

imageVars == <<googleCalls, googleRequests, tuziCalls, comicResult, models, outer,
               modelsToTry, inner, reqLog, resp, probes, pollElapsed, lastPoll, polls>>

\* Inputs and results of the functions that are also called on their own.
unitVars == <<fs, refRet, pollIn, pollRet, shots, images, main, tmp, orch,
              cfgAtStart, proxyCfg, hf, gen, out>>

\* Process-wide network settings and what they did to the requests.
proxyVars == <<environ, tuziVia>>

vars == <<cfg, transcript, precheck, cache, run, pc, use, existing, attempt, lastResp,
          lastOutcome, delay, primaryCalls, primaryTimeouts, primaryEnd,
          secondaryCalls, secondaryEnd, scriptRet, comicText, isGenerated,
          cacheWrites, refReadable, googleCalls, googleRequests, tuziCalls,
          comicResult, models, outer, modelsToTry, inner, reqLog, resp, probes,
          pollElapsed, lastPoll, polls, outFiles, escaped, fs, refRet, pollIn, pollRet, shots,
          images, main, tmp, orch, cfgAtStart, proxyCfg, environ, tuziVia, hf, gen, out,
          result>>

NoFile == [exists |-> FALSE, readable |-> FALSE, text |-> <<>>]

\* Contents of a script cache file found by a run: empty, blank, a script.
CacheTexts == {<<>>, <<"s">>, <<"s", "w">>}

CacheFiles == {NoFile}
              \cup {[exists |-> TRUE, readable |-> FALSE, text |-> <<>>]}
              \cup {[exists |-> TRUE, readable |-> TRUE, text |-> t] : t \in CacheTexts}

\* The transcript of the runs of generate_comic_from_highlight.
RunTranscripts == {<<"w", "s">>}

\* The key is read (line 475) only after the import at line 472 succeeded:
\* without the package its value makes no difference and is taken as set.
Configs == {c \in [geminiKey : BOOLEAN,      \* get_gemini_api_key() is non-empty
                   genaiInstalled : BOOLEAN, \* `from google import genai` succeeds
                   tuziKey : BOOLEAN] :      \* is_tuzi_configured()
               ~c.genaiInstalled => c.geminiKey}

\* comic_result: how the artifact was obtained (src) and, of the response it
\* came from, whether it carried the async task marker and the error marker.
\* served is the body the image URL answered with (the decoded block for a
\* base64 artifact), bytes the content of the file returned.
NoArtifact == [src |-> "none", async |-> FALSE, marker |-> FALSE,
               served |-> <<>>, bytes |-> <<>>]

\* Bodies of a 200 answer of an image URL: empty, plain bytes, bytes with a
\* carriage return and a line feed ("r", "n").
Bodies == {<<>>, <<"b">>, <<"r", "n", "b">>}

\* open(temp_file, 'wb') and f.write(content): the bytes as they are.
\* A file opened in text mode, which rewrites line ends.
SaveBytes_text_mode(content) == SelectSeq(content, LAMBDA c : c # "r")
SaveBytes(content) == content

NoResponse == [kind |-> "none", choices |-> FALSE, text |-> FALSE, async |-> FALSE,
               url |-> FALSE, b64 |-> FALSE, tool |-> FALSE, marker |-> FALSE]

\* Nothing has run yet.
InitRun ==
    /\ run = 1
    /\ existing = None
    /\ attempt = 0
    /\ lastResp = None
    /\ lastOutcome = "none"
    /\ delay = 0
    /\ primaryCalls = 0
    /\ primaryTimeouts = 0
    /\ primaryEnd = "none"
    /\ secondaryCalls = 0
    /\ secondaryEnd = "none"
    /\ scriptRet = None
    /\ comicText = None
    /\ cacheWrites = 0
    /\ googleCalls = 0
    /\ googleRequests = 0
    /\ tuziCalls = 0
    /\ comicResult = NoArtifact
    /\ models = <<>>
    /\ outer = 0
    /\ modelsToTry = <<>>
    /\ inner = 0
    /\ reqLog = <<>>
    /\ resp = NoResponse
    /\ probes = <<>>
    /\ pollElapsed = 0
    /\ lastPoll = "none"
    /\ polls = 0
    /\ outFiles = {}
    /\ escaped = "none"
    /\ result = 0

\* The reference resolver is not being looked at.
NoFs == [roomListed |-> FALSE, refImage |-> FALSE, refAtRoot |-> FALSE,
         refAtScript |-> FALSE, roomFile |-> "none", hasHighlight |-> FALSE,
         cover |-> "none", defaultCfg |-> FALSE, defAtRoot |-> FALSE,
         defAtScript |-> FALSE, dirDefault |-> "none"]

\* The Hugging Face rotation, the images/generations call and the output
\* directory are not being looked at.
IdleLate ==
    /\ hf = "unused"
    /\ gen = "unused"
    /\ out = "unused"

\* No proxy is configured and none is set in the environment.
NoProxy ==
    /\ cfgAtStart = None
    /\ proxyCfg = [gemini |-> FALSE, tuzi |-> FALSE]
    /\ environ = "none"
    /\ tuziVia = "unsent"

IdleUnits ==
    /\ fs = NoFs
    /\ refRet = "unused"
    /\ pollIn = "unused"
    /\ pollRet = "unused"
    /\ shots = "unused"
    /\ images = <<>>
    /\ main = "unused"
    /\ tmp = "unused"
    /\ orch = "unused"

IdleRef == IdleUnits /\ NoProxy /\ IdleLate

\* The generator itself is not running: a function is called on its own, in
\* a process where everything is installed and configured.
IdleRun ==
    /\ use = [google |-> FALSE, tuzi |-> FALSE]
    /\ isGenerated = None
    /\ cfg = [geminiKey |-> TRUE, genaiInstalled |-> TRUE, tuziKey |-> TRUE]
    /\ transcript = <<>>
    /\ precheck = "ok"
    /\ cache = NoFile
    /\ refReadable = TRUE

\* The provider flags have not been read and no script verdict exists yet.
NotStarted == use = [google |-> FALSE, tuzi |-> FALSE] /\ isGenerated = None

\* A call of generate_comic_from_highlight(highlight_path, room_id).
Init ==
    /\ IdleRef
    /\ NotStarted
    /\ cfg \in Configs
    /\ transcript \in RunTranscripts
    /\ precheck \in {"ok", "no_file", "room_disabled"}
    /\ cache \in CacheFiles
    /\ refReadable \in BOOLEAN
    /\ pc = "start"
    /\ InitRun

\* A call of generate_comic_content_with_ai(highlight_content, room_id) alone.
ScriptCall ==
    /\ NotStarted
    /\ cfg \in Configs
    /\ transcript \in Texts(MaxTranscriptLen)
    /\ precheck = "ok"
    /\ cache = NoFile
    /\ refReadable = TRUE
    /\ pc = "node"
    /\ InitRun

InitScript == IdleRef /\ ScriptCall

\* ------------------------------------------- generate_comic_from_highlight
\* build_comic_prompt reuses existing_comic only when it is non-blank
\* (existing_comic and existing_comic.strip() != "").
\* A build_comic_prompt that ignores existing_comic.
ReusesExisting_never(e) == FALSE
ReusesExisting(e) == e # None /\ Val(e) # <<>> /\ Strip(Val(e)) # <<>>

\* What the try/except around the cache read leaves in comic_text.
ReadCache(c) == IF c.exists /\ c.readable THEN Some(c.text) ELSE None

\* Lines 1148-1180: the run goes on past the input checks only if the
\* transcript file exists (else FileNotFoundError, line 1150) and the room's
\* enableComicGeneration is not false (else return None, line 1176).
\* Input checks that do not look at the room's settings.
Proceeds_ignores_room(pre) == pre # "no_file"
Proceeds(pre) == pre = "ok"

\* Lines 1136-1197 and 355-368: flags, input checks, cache lookup and the
\* entry of build_comic_prompt.
Start ==
    /\ pc = "start"
    /\ UNCHANGED unitVars
    /\ UNCHANGED proxyVars
    /\ IF ~Proceeds(precheck)
       THEN \* FileNotFoundError caught at line 1247, or the room is disabled
            /\ pc' = "done"
            /\ result' = 0
            /\ UNCHANGED <<existing, comicText, isGenerated>>
       ELSE /\ existing' = ReadCache(cache)
            /\ IF ReusesExisting(ReadCache(cache))
               THEN /\ comicText' = ReadCache(cache)
                    /\ isGenerated' = Some(TRUE)
                    /\ pc' = "gate"
               ELSE /\ pc' = "node"
                    /\ UNCHANGED <<comicText, isGenerated>>
            /\ UNCHANGED result
    /\ UNCHANGED <<cfg, transcript, precheck, cache, run, use, cacheWrites,
                   refReadable, delay, outFiles, escaped>>
    /\ UNCHANGED textVars
    /\ UNCHANGED imageVars

\* ------------------------------------------ generate_comic_content_with_ai
\* generate_comic_content_with_ai returns (text, flag) to build_comic_prompt,
\* which hands both on unchanged (line 368, 391).
\* A return that prepends what the previous request had answered.
ReturnScript_mixed(ret) ==
    /\ scriptRet' = Some(ret)
    /\ comicText' = Some((IF lastResp = None THEN <<>> ELSE Val(lastResp)) \o ret.text)
    /\ isGenerated' = Some(ret.flag)
    /\ pc' = "gate"
ReturnScript(ret) ==
    /\ scriptRet' = Some(ret)
    /\ comicText' = Some(ret.text)
    /\ isGenerated' = Some(ret.flag)
    /\ pc' = "gate"

\* Lines 438-465.  `import os` at line 492 makes os a local name of the whole
\* function, so os.path.join at line 440 raises UnboundLocalError before the
\* subprocess is started; `except Exception: pass` at line 464 swallows it.
NodeHelper ==
    /\ pc = "node"
    /\ UNCHANGED unitVars
    /\ UNCHANGED proxyVars
    /\ pc' = "primary"
    /\ attempt' = 0
    /\ UNCHANGED <<cfg, transcript, precheck, cache, run, use, existing, lastResp,
                   lastOutcome, delay, primaryCalls, primaryTimeouts, primaryEnd,
                   secondaryCalls, secondaryEnd, scriptRet, comicText, isGenerated,
                   cacheWrites, refReadable, outFiles, escaped, result>>
    /\ UNCHANGED imageVars

\* The except clauses of the Gemini loop (lines 533-552): ImportError leaves
\* the loop ("skip"), every other exception is retried ("retry"); an exception
\* no clause catches would leave the function ("propagate").
\* A handler that retries timeouts only and lets other errors through.
GeminiExcept_narrow(exc) ==
    IF exc = "ImportError" THEN "skip"
    ELSE IF exc = "timeout" THEN "retry"
    ELSE "propagate"
GeminiExcept(exc) == IF exc = "ImportError" THEN "skip" ELSE "retry"

\* Lines 542-546: 5 s after an ssl / handshake / timed out / timeout message.
RetryDelay(exc) == IF exc = "timeout" THEN 5 ELSE 2

\* Classification of a generate_content response (lines 512-531); r is an
\* Option text (None: no response or response.text is None).
GeminiClassify(r) ==
    IF r = None \/ Val(r) = <<>> THEN "empty"
    ELSE IF is_gemini_error(Strip(Val(r))) THEN "marker"
    ELSE "ok"

\* What the Gemini client does with a request: it raises (a timeout, another
\* error) or returns a response with or without text.
GeminiOutcomes == {[kind |-> "exc", exc |-> e, text |-> None] : e \in {"timeout", "error"}}
                  \cup {[kind |-> "resp", exc |-> "none", text |-> r] :
                            r \in {None} \cup {Some(t) : t \in Texts(MaxLen)}}

\* `return highlight_content, False` (lines 480, 531, 568, 601, 614, 624, 627).
\* A fallback that trims the transcript.
RawFallback_stripped(highlight_content) ==
    [text |-> Strip(highlight_content), flag |-> FALSE]
RawFallback(highlight_content) == [text |-> highlight_content, flag |-> FALSE]

\* What one failed Gemini attempt does next (lines 518-524, 544-552).
GeminiRetryOrAdvance(d) ==
    IF attempt < max_gemini_retries - 1
    THEN /\ attempt' = attempt + 1
         /\ delay' = d
         /\ pc' = "primary"
         /\ UNCHANGED <<primaryEnd>>
    ELSE /\ attempt' = 0
         /\ delay' = 0
         /\ primaryEnd' = "exhausted"
         /\ pc' = "secondary"

\* ImportError at line 472: on to the tuZi loop without a request.
GeminiSkip ==
    /\ primaryEnd' = "import_missing"
    /\ attempt' = 0
    /\ delay' = 0
    /\ pc' = "secondary"

\* An exception leaves function f; the handler of generate_comic_from_highlight
\* (line 1247) ends the run with None.
Propagate(f) ==
    /\ escaped' = f
    /\ pc' = "done"

\* Lines 489-494: a configured Gemini proxy is written to os.environ of the
\* process before the request; nothing in the program removes it.
SetGeminiProxy(env) == IF proxyCfg.gemini THEN "gemini_proxy" ELSE env

\* One iteration of the Gemini loop, lines 469-552.
PrimaryAttempt ==
    /\ pc = "primary"
    /\ UNCHANGED unitVars
    /\ UNCHANGED tuziVia
    /\ environ' = IF cfg.genaiInstalled /\ cfg.geminiKey
                  THEN SetGeminiProxy(environ)
                  ELSE environ
    /\ IF ~cfg.genaiInstalled
       THEN /\ lastOutcome' = "import_missing"
            /\ CASE GeminiExcept("ImportError") = "skip" ->
                      GeminiSkip /\ UNCHANGED escaped
                 [] GeminiExcept("ImportError") = "retry" ->
                      GeminiRetryOrAdvance(RetryDelay("ImportError")) /\ UNCHANGED escaped
                 [] OTHER ->
                      /\ Propagate("generate_comic_content_with_ai")
                      /\ UNCHANGED <<attempt, delay, primaryEnd>>
            /\ UNCHANGED <<lastResp, primaryCalls, primaryTimeouts, scriptRet,
                           comicText, isGenerated>>
       ELSE IF ~cfg.geminiKey
       THEN \* line 478-480
            /\ primaryEnd' = "no_key"
            /\ lastOutcome' = "no_key"
            /\ delay' = 0
            /\ ReturnScript(RawFallback(transcript))
            /\ UNCHANGED <<attempt, lastResp, primaryCalls, primaryTimeouts, escaped>>
       ELSE \E o \in GeminiOutcomes :
            /\ primaryCalls' = primaryCalls + 1
            /\ lastResp' = o.text
            /\ IF o.kind = "exc"
               THEN /\ lastOutcome' = o.exc
                    /\ primaryTimeouts' = primaryTimeouts + (IF o.exc = "timeout" THEN 1 ELSE 0)
                    /\ CASE GeminiExcept(o.exc) = "retry" ->
                              GeminiRetryOrAdvance(RetryDelay(o.exc)) /\ UNCHANGED escaped
                         [] GeminiExcept(o.exc) = "skip" ->
                              GeminiSkip /\ UNCHANGED escaped
                         [] OTHER ->
                              /\ Propagate("generate_comic_content_with_ai")
                              /\ UNCHANGED <<attempt, delay, primaryEnd>>
                    /\ UNCHANGED <<scriptRet, comicText, isGenerated>>
               ELSE /\ lastOutcome' = GeminiClassify(o.text)
                    /\ UNCHANGED <<primaryTimeouts, escaped>>
                    /\ CASE GeminiClassify(o.text) = "empty" ->
                              /\ primaryEnd' = "empty"
                              /\ delay' = 0
                              /\ ReturnScript(RawFallback(transcript))
                              /\ UNCHANGED attempt
                         [] GeminiClassify(o.text) = "marker" ->
                              /\ GeminiRetryOrAdvance(2)
                              /\ UNCHANGED <<scriptRet, comicText, isGenerated>>
                         [] OTHER ->
                              /\ primaryEnd' = "success"
                              /\ delay' = 0
                              /\ ReturnScript([text |-> Strip(Val(o.text)), flag |-> TRUE])
                              /\ UNCHANGED attempt
    /\ UNCHANGED <<cfg, transcript, precheck, cache, run, use, existing,
                   secondaryCalls, secondaryEnd, cacheWrites, refReadable, outFiles,
                   result>>
    /\ UNCHANGED imageVars

\* call_tuzi_chat_completions (tuzi_chat_completions.py lines 45-101): the
\* stripped content of a 200 response with a non-blank first choice, else
\* None; a request exception is caught inside (line 98).
\* A helper that returns the content as received.
call_tuzi_chat_completions_unstripped(h) ==
    IF h.kind = "ok" /\ h.content # <<>> /\ Strip(h.content) # <<>>
    THEN Some(h.content)
    ELSE None
call_tuzi_chat_completions(h) ==
    IF h.kind = "ok" /\ h.content # <<>> /\ Strip(h.content) # <<>>
    THEN Some(Strip(h.content))
    ELSE None

\* Lines 46-53 and 77: the request is given proxies = {} unless proxy_url is
\* set, and requests fills an empty proxies argument from the proxy variables
\* of the environment ("none": a direct connection).
TextRequestProxy(own, env) == IF own THEN "tuzi_proxy" ELSE env

\* HTTP outcomes of the chat-completions text request.
TuziTextResponses ==
    {[kind |-> k, content |-> <<>>] : k \in {"exc", "status", "badjson", "nochoices"}}
    \cup {[kind |-> "ok", content |-> t] : t \in Texts(MaxLen)}

\* Classification of what call_tuzi_chat_completions returned (lines 591-614).
TuziClassify(c) ==
    IF c = None THEN "empty"
    ELSE IF is_gemini_error(Val(c)) THEN "marker"
    ELSE "ok"

\* A failed tuZi text attempt: retry after 2 s, or fall back to the raw
\* transcript after the last one (lines 595-601, 609-614, 618-624).
TuziRetryOrFallback ==
    IF attempt < max_tuzi_retries - 1
    THEN /\ attempt' = attempt + 1
         /\ delay' = 2
         /\ pc' = "secondary"
         /\ UNCHANGED <<secondaryEnd, scriptRet, comicText, isGenerated>>
    ELSE /\ secondaryEnd' = "exhausted"
         /\ delay' = 0
         /\ ReturnScript(RawFallback(transcript))
         /\ UNCHANGED attempt

\* One iteration of the tuZi text loop, lines 559-624.
SecondaryAttempt ==
    /\ pc = "secondary"
    /\ UNCHANGED unitVars
    /\ UNCHANGED environ
    /\ \/ \* load_config raised inside the try block: handler at line 616
          /\ lastOutcome' = "config_error"
          /\ lastResp' = None
          /\ TuziRetryOrFallback
          /\ UNCHANGED <<secondaryCalls, tuziVia>>
       \/ /\ ~cfg.tuziKey
          \* line 566-568
          /\ secondaryEnd' = "not_configured"
          /\ lastOutcome' = "not_configured"
          /\ delay' = 0
          /\ lastResp' = None
          /\ ReturnScript(RawFallback(transcript))
          /\ UNCHANGED <<attempt, secondaryCalls, tuziVia>>
       \/ /\ cfg.tuziKey
          /\ \E h \in TuziTextResponses :
               /\ secondaryCalls' = secondaryCalls + 1
               /\ tuziVia' = TextRequestProxy(proxyCfg.tuzi, environ)
               /\ lastResp' = IF h.kind = "ok" THEN Some(h.content) ELSE None
               /\ lastOutcome' = TuziClassify(call_tuzi_chat_completions(h))
               /\ IF TuziClassify(call_tuzi_chat_completions(h)) = "ok"
                  THEN /\ secondaryEnd' = "success"
                       /\ delay' = 0
                       /\ ReturnScript([text |-> Val(call_tuzi_chat_completions(h)),
                                        flag |-> TRUE])
                       /\ UNCHANGED attempt
                  ELSE TuziRetryOrFallback
    /\ UNCHANGED <<cfg, transcript, precheck, cache, run, use, existing,
                   primaryCalls, primaryTimeouts, primaryEnd, cacheWrites, refReadable,
                   outFiles, escaped, result>>
    /\ UNCHANGED imageVars

\* ----------------------------------- script gate and cache write (1199-1211)
\* The frame of generate_comic_content_with_ai is gone once build_comic_prompt
\* has returned, and comic_text is not read after line 1208 (the prompt
\* carries it): the bookkeeping of the script stage is cleared here.
ClearTextFrame ==
    /\ attempt' = 0
    /\ lastResp' = None
    /\ lastOutcome' = "none"
    /\ primaryCalls' = 0
    /\ primaryTimeouts' = 0
    /\ primaryEnd' = "none"
    /\ secondaryCalls' = 0
    /\ secondaryEnd' = "none"
    /\ scriptRet' = None
    /\ tuziVia' = "unsent"

\* Line 1200: image generation proceeds only for a generated (or reused) script.
\* A gate that lets every script through.
PassesGate_always(flag) == TRUE
PassesGate(flag) == flag

\* Line 1206: the script is written only if the file is absent and the text
\* is non-empty.
\* A write that does not look whether the file is there.
WritesCache_overwrites(c, text, flag) == text # <<>> /\ flag
WritesCache(c, text, flag) == ~c.exists /\ text # <<>> /\ flag

\* use_google and use_tuzi are locals read from the configuration at line
\* 1144-1145; nothing reads or assigns them before line 1218, so the state
\* records them from the gate on.
Gate ==
    /\ pc = "gate"
    /\ UNCHANGED unitVars
    /\ UNCHANGED environ
    /\ \E g \in BOOLEAN, t \in BOOLEAN : use' = [google |-> g, tuzi |-> t]
    /\ IF ~PassesGate(Val(isGenerated))
       THEN /\ pc' = "done"
            /\ result' = 0
            /\ UNCHANGED <<cache, cacheWrites>>
       ELSE /\ IF WritesCache(cache, Val(comicText), Val(isGenerated))
               THEN /\ cache' = [exists |-> TRUE, readable |-> TRUE,
                                 text |-> Val(comicText)]
                    /\ cacheWrites' = cacheWrites + 1
               ELSE UNCHANGED <<cache, cacheWrites>>
            /\ pc' = "google"
            /\ UNCHANGED result
    /\ ClearTextFrame
    /\ existing' = None
    /\ comicText' = None
    /\ delay' = 0
    /\ UNCHANGED <<cfg, transcript, precheck, run, isGenerated, refReadable,
                   outFiles, escaped>>
    /\ UNCHANGED imageVars

\* --------------------------------------------------- image provider cascade
\* is_googleimage_configured() (line 125-127) is hard-wired to False.
\* A check that finds the Google image provider configured.
is_googleimage_configured_enabled == TRUE
is_googleimage_configured == FALSE

\* Lines 1217-1223 and call_google_image_api, lines 719-730.
GoogleImage ==
    /\ pc = "google"
    /\ UNCHANGED unitVars
    /\ UNCHANGED proxyVars
    /\ IF use.google
       THEN /\ googleCalls' = googleCalls + 1
            /\ IF is_googleimage_configured
               THEN /\ googleRequests' = googleRequests + 1
                    /\ \E a \in {NoArtifact, [NoArtifact EXCEPT !.src = "google"]} :
                         comicResult' = a
               ELSE UNCHANGED <<googleRequests, comicResult>>
       ELSE UNCHANGED <<googleCalls, googleRequests, comicResult>>
    /\ pc' = "tuzi"
    /\ UNCHANGED <<cfg, transcript, precheck, cache, run, use, existing, comicText,
                   isGenerated, cacheWrites, refReadable, delay, outFiles, escaped,
                   result>>
    /\ UNCHANGED textVars
    /\ UNCHANGED <<tuziCalls, models, outer, modelsToTry, inner, reqLog, resp, probes,
                   pollElapsed, lastPoll, polls>>

\* The hard-coded fallback models (ai_comic_generator.py line 927-929,
\* tuzi_chat_completions.py line 221).
Fallbacks == <<"gpt-image-1.5", "gemini-2.5-flash-image-vip",
               "gemini-3-pro-image-preview/nano-banana-2">>

\* Values of aiServices.tuZi.model: a model of its own, or unset (the default).
ConfiguredModels == {"configured-model", "gpt-image-1.5"}

\* Line 925-930.
ModelList(m) == <<m>> \o Fallbacks

\* Line 219-224: models_to_try, the fallbacks appended without duplicates.
RECURSIVE AppendNew(_, _)
AppendNew(acc, rest) ==
    IF rest = <<>> THEN acc
    ELSE IF \E i \in 1..Len(acc) : acc[i] = Head(rest)
         THEN AppendNew(acc, Tail(rest))
         ELSE AppendNew(Append(acc, Head(rest)), Tail(rest))

ModelsToTry(m) == AppendNew(<<m>>, Fallbacks)

\* Line 1226: the tuZi provider is called only without a result so far.
CallsTuzi(r, enabled) == r = NoArtifact /\ enabled

\* Lines 1226-1232 and call_tuzi_image_api up to its loop (903-933).
TuziImageStart ==
    /\ pc = "tuzi"
    /\ UNCHANGED unitVars
    /\ UNCHANGED proxyVars
    /\ IF CallsTuzi(comicResult, use.tuzi)
       THEN /\ tuziCalls' = tuziCalls + 1
            /\ IF ~cfg.tuziKey
               THEN /\ pc' = "finish"
                    /\ UNCHANGED <<models, outer>>
               ELSE /\ \E m \in ConfiguredModels : models' = ModelList(m)
                    /\ outer' = 1
                    /\ pc' = "img_enter"
       ELSE /\ pc' = "finish"
            /\ UNCHANGED <<tuziCalls, models, outer>>
    /\ UNCHANGED <<cfg, transcript, precheck, cache, run, use, existing, comicText,
                   isGenerated, cacheWrites, refReadable, delay, outFiles, escaped,
                   result>>
    /\ UNCHANGED textVars
    /\ UNCHANGED <<googleCalls, googleRequests, comicResult, modelsToTry, inner, reqLog,
                   resp, probes, pollElapsed, lastPoll, polls>>

\* call_tuzi_chat_completions_for_image returned None to the loop of
\* call_tuzi_image_api (line 945-948): next model of the list, or None.
OuterAdvance ==
    IF outer < Len(models)
    THEN /\ outer' = outer + 1
         /\ pc' = "img_enter"
    ELSE /\ outer' = outer
         /\ pc' = "finish"

\* Entry of call_tuzi_chat_completions_for_image, lines 162-226.  Encoding an
\* unreadable reference image raises; the handler at line 434 returns None.
ChatImageEnter ==
    /\ pc = "img_enter"
    /\ UNCHANGED unitVars
    /\ UNCHANGED proxyVars
    /\ IF ~refReadable
       THEN /\ OuterAdvance
            /\ UNCHANGED <<modelsToTry, inner>>
       ELSE /\ modelsToTry' = ModelsToTry(models[outer])
            /\ inner' = 1
            /\ pc' = "img_req"
            /\ UNCHANGED outer
    /\ probes' = <<>>
    /\ UNCHANGED <<cfg, transcript, precheck, cache, run, use, existing, comicText,
                   isGenerated, cacheWrites, refReadable, delay, outFiles, escaped,
                   result>>
    /\ UNCHANGED textVars
    /\ UNCHANGED <<googleCalls, googleRequests, tuziCalls, comicResult, models, reqLog,
                   resp, pollElapsed, lastPoll, polls>>

\* 200 responses of the chat-completions image request, by what the code
\* looks at: a first choice, a non-empty string content, the async task
\* marker (line 260), a bare image URL (line 336), a base64 data URI (line
\* 362), a function tool call carrying image_url (line 384-391), and the
\* provider-error marker in the content (an error body names no task).
OkBodies ==
    {r \in [kind : {"ok"}, choices : BOOLEAN, text : BOOLEAN, async : BOOLEAN,
            url : BOOLEAN, b64 : BOOLEAN, tool : BOOLEAN, marker : BOOLEAN] :
        /\ (r.text \/ r.tool) => r.choices
        /\ (r.async \/ r.url \/ r.b64 \/ r.marker) => r.text
        /\ r.marker => ~r.async}

ImageResponses ==
    {[NoResponse EXCEPT !.kind = k] : k \in {"exc", "status", "badjson"}}
    \cup OkBodies

\* Outcome of a GET of an image URL: 200 with a body, another status, or a
\* request exception.
Downloads == {"200", "status", "exc"}

\* Lines 335-413: the probes that follow the async branch, in source order.
\* r is the response, pre the probes already made, ud / bo / td the outcome of
\* the bare-URL download, the base64 decode and the tool-call download.
\* The base64 block is probed before the bare URL.
Extract_base64_first(r, pre, ud, bo, td) ==
    LET p1 == IF r.text /\ r.b64 THEN Append(pre, "b64") ELSE pre
        p2 == IF r.text /\ r.url THEN Append(p1, "url") ELSE p1
        p3 == IF r.choices /\ r.tool THEN Append(p2, "tool") ELSE p2
    IN  IF r.text /\ r.b64 /\ bo THEN [src |-> "b64", probes |-> p1]
        ELSE IF r.text /\ r.url /\ ud = "200" THEN [src |-> "url", probes |-> p2]
        ELSE IF r.choices /\ r.tool /\ td = "200" THEN [src |-> "tool", probes |-> p3]
        ELSE [src |-> "none", probes |-> p3]
Extract(r, pre, ud, bo, td) ==
    LET p1 == IF r.text /\ r.url THEN Append(pre, "url") ELSE pre
        p2 == IF r.text /\ r.b64 THEN Append(p1, "b64") ELSE p1
        p3 == IF r.choices /\ r.tool THEN Append(p2, "tool") ELSE p2
    IN  IF r.text /\ r.url /\ ud = "200" THEN [src |-> "url", probes |-> p1]
        ELSE IF r.text /\ r.b64 /\ bo THEN [src |-> "b64", probes |-> p2]
        ELSE IF r.choices /\ r.tool /\ td = "200" THEN [src |-> "tool", probes |-> p3]
        ELSE [src |-> "none", probes |-> p3]

\* Lines 421-432: no artifact from this model; sleep 2 s and take the next
\* model of models_to_try, or return None after the last one.
InnerAdvance ==
    IF inner < Len(modelsToTry)
    THEN /\ inner' = inner + 1
         /\ delay' = 2
         /\ pc' = "img_req"
         /\ UNCHANGED outer
    ELSE /\ inner' = inner
         /\ delay' = 0
         /\ OuterAdvance

\* The artifact is returned through call_tuzi_image_api (line 945-946): both
\* model loops and their frames are left.
\* An artifact is recorded but the model loop goes on.
ReturnArtifact_continues(src, r, body) ==
    /\ comicResult' = [src |-> src, async |-> r.async, marker |-> r.marker,
                       served |-> body, bytes |-> SaveBytes(body)]
    /\ resp' = NoResponse
    /\ pc' = "img_req"
    /\ delay' = 0
    /\ UNCHANGED <<inner, outer, models, modelsToTry, reqLog>>
ReturnArtifact(src, r, body) ==
    /\ comicResult' = [src |-> src, async |-> r.async, marker |-> r.marker,
                       served |-> body, bytes |-> SaveBytes(body)]
    /\ resp' = NoResponse
    /\ pc' = "finish"
    /\ delay' = 0
    /\ inner' = 0
    /\ outer' = 0
    /\ models' = <<>>
    /\ modelsToTry' = <<>>
    /\ reqLog' = <<>>

\* Line 257-261: the polling loop is entered for a string content that
\* carries the async task marker.
EntersPolling(r) == r.kind = "ok" /\ r.choices /\ r.text /\ r.async

\* What the polling loop knows of the response: the task URL.  The rest of
\* the content is not looked at before line 335.
TaskOnly(r) == [r EXCEPT !.url = FALSE, !.b64 = FALSE, !.tool = FALSE]

\* What the probes can come to for the responses hs, over every outcome of
\* the downloads and of the decoding: the encoding that yielded the artifact
\* with the probes made and the markers of the response, or no artifact.
Outcome(e, h) ==
    IF e.src # "none"
    THEN [src |-> e.src, probes |-> e.probes, async |-> h.async, marker |-> h.marker]
    ELSE [src |-> "none", probes |-> <<>>, async |-> FALSE, marker |-> FALSE]

ExtractOutcomes(hs, pre) ==
    {Outcome(Extract(h, pre, ud, bo, td), h) :
        h \in hs, ud \in Downloads, bo \in BOOLEAN, td \in Downloads}

\* The outcomes for a response that does not enter the polling loop.
DirectOutcomes ==
    ExtractOutcomes({h \in OkBodies : ~EntersPolling(h)}, <<>>)

\* The outcomes after the polling loop was left, for each response r as the
\* loop knows it: the probes go over whatever else the content holds.
PolledOutcomes ==
    [r \in {TaskOnly(h) : h \in {x \in OkBodies : EntersPolling(x)}} |->
        ExtractOutcomes({h \in OkBodies : TaskOnly(h) = r}, <<"async">>)]

\* The rest of the handling of a 200 response, with the outcomes es, once the
\* async branch is over.
ExtractAndContinue(es, log) ==
    \E e \in es :
        IF e.src # "none"
        THEN /\ probes' = e.probes
             /\ \E body \in Bodies : ReturnArtifact(e.src, e, body)
        ELSE /\ probes' = <<>>
             /\ InnerAdvance
             /\ resp' = NoResponse
             /\ reqLog' = log
             /\ UNCHANGED <<comicResult, models, modelsToTry>>

\* One iteration of the model loop, lines 227-430, up to the polling loop.
ImageRequest ==
    /\ pc = "img_req"
    /\ UNCHANGED unitVars
    /\ UNCHANGED proxyVars
    /\ \/ \* request exception or malformed JSON (handler at line 426),
          \* or a status other than 200 (line 419)
          /\ \E h \in ImageResponses : h.kind # "ok"
          /\ InnerAdvance
          /\ probes' = <<>>
          /\ resp' = NoResponse
          /\ reqLog' = Append(reqLog, modelsToTry[inner])
          /\ UNCHANGED <<comicResult, pollElapsed, polls, models, modelsToTry>>
       \/ \E r \in {TaskOnly(h) : h \in {x \in ImageResponses : EntersPolling(x)}} :
          /\ resp' = r
          /\ probes' = <<"async">>
          /\ pollElapsed' = 0
          /\ polls' = 0
          /\ pc' = "poll"
          /\ delay' = 0
          /\ reqLog' = Append(reqLog, modelsToTry[inner])
          /\ UNCHANGED <<comicResult, inner, outer, models, modelsToTry>>
       \/ /\ ExtractAndContinue(DirectOutcomes, Append(reqLog, modelsToTry[inner]))
          /\ UNCHANGED <<pollElapsed, polls>>
    /\ UNCHANGED <<cfg, transcript, precheck, cache, run, use, existing, comicText,
                   isGenerated, cacheWrites, refReadable, outFiles, escaped, result>>
    /\ UNCHANGED textVars
    /\ UNCHANGED <<googleCalls, googleRequests, tuziCalls, lastPoll>>

\* ---------------------------------------------- async task polling (269-333)
\* JSON bodies of the task URL, by the fields the code reads: status (or no
\* status field), the urls list and the first entry of the generations list.
\* The lists are only read of a body without status "failed" / "processing".
PollBodies ==
    {b \in [kind : {"json"},
            status : {"completed", "failed", "processing", "missing"},
            urls : {"absent", "empty", "one"},
            gens : {"absent", "empty", "url"}] :
        b.status \in {"failed", "processing"} => (b.urls = "absent" /\ b.gens = "absent")}

PollOutcomes ==
    {[kind |-> k, status |-> "missing", urls |-> "absent", gens |-> "absent"] :
        k \in {"exc", "status", "badjson"}}
    \cup PollBodies

\* Line 279.
PollCompleted(b) ==
    b.status = "completed" \/ (b.status = "missing" /\ b.urls # "absent")

\* Lines 281-293: where final_image_url comes from, "none" if there is none.
ResolvedUrl(b) ==
    IF b.urls = "one" THEN "urls"
    ELSE IF b.gens = "url" THEN "generations"
    ELSE "none"

\* time.sleep(3) at the end of a non-terminal iteration.
\* A poller that polls again at once.
PollSleep_no_wait ==
    /\ pollElapsed' = pollElapsed + 1
    /\ delay' = 0
    /\ pc' = "poll"
    /\ UNCHANGED <<comicResult, resp, inner, outer, models, modelsToTry, reqLog>>
PollSleep ==
    /\ pollElapsed' = pollElapsed + 1
    /\ delay' = 3
    /\ pc' = "poll"
    /\ UNCHANGED <<comicResult, resp, inner, outer, models, modelsToTry, reqLog>>

\* break, or the while condition failing: on to line 331.
PollLeave ==
    /\ pc' = "after_poll"
    /\ delay' = 0
    /\ UNCHANGED <<comicResult, resp, pollElapsed, inner, outer, models, modelsToTry,
                   reqLog>>

\* What one iteration of the polling loop comes to, for the answer o of the
\* task URL and the outcome d of the download of the resolved image URL:
\* "exc" / "status" / "badjson" for a GET that raised, a status other than 200
\* and a body that is no JSON; "downloaded"; "download_status" (line 306);
\* "download_exc" (requests.get at line 297 raised); "no_url" (line 310);
\* "failed" (line 314); "processing" (line 317).
PollVerdict(o, d) ==
    IF o.kind # "json" THEN o.kind
    ELSE IF PollCompleted(o)
    THEN IF ResolvedUrl(o) = "none" THEN "no_url"
         ELSE IF d = "200" THEN "downloaded"
         ELSE IF d = "status" THEN "download_status"
         ELSE "download_exc"
    ELSE IF o.status = "failed" THEN "failed"
    ELSE "processing"

\* Every verdict an answer of the task URL and a download can lead to.
PollVerdicts == {PollVerdict(o, d) : o \in PollOutcomes, d \in Downloads}

\* How the iteration ends: return at line 305, break at lines 309, 312 and
\* 316, time.sleep(3) at lines 319, 322, 325 and, for whatever raised inside
\* the try block, in the handler at line 327-329.
\* A poller that keeps polling a failed task.
PollStep_failed_sleeps(v) ==
    IF v = "downloaded" THEN "return"
    ELSE IF v \in {"download_status", "no_url"} THEN "leave"
    ELSE "sleep"
\* A poller that gives up on a body that is no JSON.
PollStep_badjson_leaves(v) ==
    IF v = "downloaded" THEN "return"
    ELSE IF v \in {"download_status", "no_url", "failed", "badjson"} THEN "leave"
    ELSE "sleep"
PollStep(v) ==
    IF v = "downloaded" THEN "return"
    ELSE IF v \in {"download_status", "no_url", "failed"} THEN "leave"
    ELSE "sleep"

\* One evaluation of the while condition at line 270 and, if it holds, one
\* iteration of the polling loop.
Poll ==
    /\ pc = "poll"
    /\ UNCHANGED unitVars
    /\ UNCHANGED proxyVars
    /\ IF pollElapsed >= PollBudget
       THEN /\ PollLeave
            /\ lastPoll' = "deadline"
       ELSE /\ \E v \in PollVerdicts :
                 /\ lastPoll' = v
                 /\ CASE PollStep(v) = "return" ->
                             /\ \E body \in Bodies : ReturnArtifact("async", resp, body)
                             /\ pollElapsed' = 0
                      [] PollStep(v) = "leave" -> PollLeave
                      [] OTHER -> PollSleep
    /\ UNCHANGED <<cfg, transcript, precheck, cache, run, use, existing, comicText,
                   isGenerated, cacheWrites, refReadable, outFiles, escaped, result>>
    /\ UNCHANGED textVars
    /\ polls' = IF pollElapsed >= PollBudget THEN polls
                 ELSE IF pc' = "finish" THEN 0 ELSE polls + 1
    /\ UNCHANGED <<googleCalls, googleRequests, tuziCalls, probes>>

\* Lines 331-430 after the polling loop was left without an artifact: the
\* remaining probes run on the same response body.
AfterPoll ==
    /\ pc = "after_poll"
    /\ UNCHANGED unitVars
    /\ UNCHANGED proxyVars
    /\ probes = <<"async">>
    /\ ExtractAndContinue(PolledOutcomes[resp], reqLog)
    /\ pollElapsed' = 0
    /\ lastPoll' = "none"
    /\ polls' = 0
    /\ UNCHANGED <<cfg, transcript, precheck, cache, run, use, existing, comicText,
                   isGenerated, cacheWrites, refReadable, outFiles, escaped, result>>
    /\ UNCHANGED textVars
    /\ UNCHANGED <<googleCalls, googleRequests, tuziCalls>>

\* ------------------------------------------------ saving the result (1234-1245)
\* generate_unique_filename (line 129-143): candidate 1 is base_path,
\* candidate k + 1 carries the suffix _k; the first one that does not exist.
RECURSIVE FirstFree(_, _)
FirstFree(files, k) == IF k \notin files THEN k ELSE FirstFree(files, k + 1)

\* A generate_unique_filename that returns base_path as it is.
generate_unique_filename_base(files) == 1
generate_unique_filename(files) == FirstFree(files, 1)

\* The frames of call_tuzi_image_api and call_tuzi_chat_completions_for_image
\* are gone once comic_result has been taken over, and comic_result itself
\* once save_comic_result has copied the file (line 1241-1245).
ClearImageFrame ==
    /\ models' = <<>>
    /\ outer' = 0
    /\ modelsToTry' = <<>>
    /\ inner' = 0
    /\ reqLog' = <<>>
    /\ resp' = NoResponse
    /\ probes' = <<>>
    /\ pollElapsed' = 0
    /\ lastPoll' = "none"
    /\ polls' = 0

Finish ==
    /\ pc = "finish"
    /\ UNCHANGED unitVars
    /\ UNCHANGED proxyVars
    /\ IF comicResult = NoArtifact
       THEN /\ result' = 0
            /\ UNCHANGED outFiles
       ELSE /\ result' = generate_unique_filename(outFiles)
            /\ outFiles' = outFiles \cup {generate_unique_filename(outFiles)}
    /\ pc' = "done"
    /\ ClearImageFrame
    /\ delay' = 0
    /\ UNCHANGED <<cfg, transcript, precheck, cache, run, use, existing, comicText,
                   isGenerated, cacheWrites, refReadable, escaped>>
    /\ UNCHANGED textVars
    /\ comicResult' = NoArtifact
    /\ UNCHANGED <<googleCalls, googleRequests, tuziCalls>>

\* The generator is started again on the same transcript; the files stay.
NewRun ==
    /\ pc = "done"
    /\ UNCHANGED unitVars
    /\ UNCHANGED proxyVars
    /\ run < MaxRuns
    /\ run' = run + 1
    /\ pc' = "start"
    /\ use' = [google |-> FALSE, tuzi |-> FALSE]
    /\ existing' = None
    /\ comicText' = None
    /\ isGenerated' = None
    /\ cacheWrites' = 0
    /\ googleCalls' = 0
    /\ googleRequests' = 0
    /\ tuziCalls' = 0
    /\ comicResult' = NoArtifact
    /\ result' = 0
    /\ UNCHANGED <<models, outer, modelsToTry, inner, reqLog, resp, probes, pollElapsed,
                   lastPoll, polls, delay>>
    /\ UNCHANGED <<cfg, transcript, precheck, cache, refReadable, outFiles, escaped>>
    /\ UNCHANGED textVars

Next ==
    \/ Start
    \/ NodeHelper
    \/ PrimaryAttempt
    \/ SecondaryAttempt
    \/ Gate
    \/ GoogleImage
    \/ TuziImageStart
    \/ ChatImageEnter
    \/ ImageRequest
    \/ Poll
    \/ AfterPoll
    \/ Finish
    \/ NewRun

Spec == Init /\ [][Next]_vars

NextScript ==
    \/ NodeHelper
    \/ PrimaryAttempt
    \/ SecondaryAttempt

SpecScript == InitScript /\ [][NextScript]_vars

\* The same call in a process whose configuration names a proxy for either
\* text provider (aiServices.gemini.proxy, aiServices.tuZi.proxy).
InitProxy ==
    /\ IdleUnits
    /\ IdleLate
    /\ ScriptCall
    /\ cfgAtStart = None
    /\ proxyCfg \in [gemini : BOOLEAN, tuzi : BOOLEAN]
    /\ environ = "none"
    /\ tuziVia = "unsent"

SpecProxy == InitProxy /\ [][NextScript]_vars

\* The same call while the configuration files are edited: get_config
\* (config_loader.py lines 82-136) opens and parses the files on every call,
\* and the request calls it again at each stage (get_gemini_api_key at line
\* 476, load_config at 483 and 563, is_tuzi_configured at 566).
InitConfig ==
    /\ IdleUnits
    /\ IdleLate
    /\ ScriptCall
    /\ cfgAtStart = Some(cfg)
    /\ proxyCfg = [gemini |-> FALSE, tuzi |-> FALSE]
    /\ environ = "none"
    /\ tuziVia = "unsent"

\* An edit of the configuration files between two stages of the request; the
\* installed libraries stay as they are.
ChangeConfig ==
    /\ pc \in {"node", "primary", "secondary"}
    /\ \E c \in Configs :
         /\ c # cfg
         /\ c.genaiInstalled = cfg.genaiInstalled
         /\ cfg' = c
    /\ UNCHANGED <<transcript, precheck, cache, run, pc, use, existing, attempt,
                   delay, lastResp, lastOutcome, primaryCalls, primaryTimeouts,
                   primaryEnd, secondaryCalls, secondaryEnd, scriptRet, comicText,
                   isGenerated, cacheWrites, refReadable, outFiles, escaped, result>>
    /\ UNCHANGED imageVars
    /\ UNCHANGED unitVars
    /\ UNCHANGED proxyVars

NextConfig ==
    \/ NodeHelper
    \/ PrimaryAttempt
    \/ SecondaryAttempt
    \/ ChangeConfig

SpecConfig == InitConfig /\ [][NextConfig]_vars

\* A call of call_tuzi_image_api(prompt, reference_image_path) on its own, as
\* generate_comic_from_highlight makes it at line 1226-1228: tuZi is enabled,
\* the script was generated and no artifact exists yet.
InitImage ==
    /\ IdleRef
    /\ use = [google |-> FALSE, tuzi |-> TRUE]
    /\ isGenerated = Some(TRUE)
    /\ cfg \in {c \in Configs : c.geminiKey /\ c.genaiInstalled}
    /\ transcript \in RunTranscripts
    /\ precheck = "ok"
    /\ cache = NoFile
    /\ refReadable \in BOOLEAN
    /\ pc = "tuzi"
    /\ InitRun

NextImage ==
    \/ TuziImageStart
    \/ ChatImageEnter
    \/ ImageRequest
    \/ Poll
    \/ AfterPoll

SpecImage == InitImage /\ [][NextImage]_vars

\* The process is single-threaded and every request carries a timeout: a
\* step that can be taken is taken.
SpecImageFair == SpecImage /\ WF_vars(NextImage)

\* ------------------------------------------------- the reference resolver
\* What a call of get_room_reference_image(room_id, highlight_path) can find:
\*   roomListed   room_id is a key of roomSettings (line 182)
\*   refImage     its referenceImage is a non-empty string (line 183-184)
\*   refAtRoot    that path exists relative to the project root (line 188)
\*   refAtScript  that path exists relative to the scripts directory (line 193)
\*   roomFile     extension of the first <room_id>.<ext> in reference_images
\*   hasHighlight highlight_path was given
\*   cover        extension of the first <base>.cover<ext> next to the transcript
\*   defaultCfg   a defaultReferenceImage is configured (lines 223-231)
\*   defAtRoot, defAtScript   where that path exists (lines 236, 241)
\*   dirDefault   directory holding the first default file of lines 247-261
RefInputs ==
    [roomListed : BOOLEAN, refImage : BOOLEAN, refAtRoot : BOOLEAN,
     refAtScript : BOOLEAN, roomFile : {"none", "jpg", "png"},
     hasHighlight : BOOLEAN, cover : {"none", "jpg", "png"},
     defaultCfg : BOOLEAN, defAtRoot : BOOLEAN, defAtScript : BOOLEAN,
     dirDefault : {"none", "public", "scripts"}]

\* get_live_cover_image (lines 145-162): the first existing cover file.
get_live_cover_image(f) == f.cover

\* Lines 182-212: the room's own reference image, "none" if this step
\* returns nothing.  room_has_config is set as soon as a referenceImage is
\* configured, whether or not the file exists.
room_has_config(f) == f.roomListed /\ f.refImage

RoomStep(f) ==
    IF ~f.roomListed THEN "none"
    ELSE IF f.refImage
         THEN IF f.refAtRoot THEN "room_root"
              ELSE IF f.refAtScript THEN "room_script"
              ELSE "none"
         ELSE IF f.roomFile # "none" THEN "room_dir" ELSE "none"

\* Line 215-219: the cover is looked for only without a configured image.
TriesCover(f) == ~room_has_config(f) /\ f.hasHighlight

\* Lines 221-263: the configured default image, then the default files.
DefaultStep(f) ==
    IF f.defaultCfg /\ f.defAtRoot THEN "default_root"
    ELSE IF f.defaultCfg /\ f.defAtScript THEN "default_script"
    ELSE IF f.dirDefault # "none" THEN "default_dir"
    ELSE "none"

get_room_reference_image(f) ==
    IF RoomStep(f) # "none" THEN RoomStep(f)
    ELSE IF TriesCover(f) /\ get_live_cover_image(f) # "none" THEN "cover"
    ELSE DefaultStep(f)

\* A call of get_room_reference_image on its own.
InitRef ==
    /\ fs \in RefInputs
    /\ refRet = "pending"
    /\ pollIn = "unused"
    /\ pollRet = "unused"
    /\ shots = "unused"
    /\ images = <<>>
    /\ main = "unused"
    /\ tmp = "unused"
    /\ orch = "unused"
    /\ NoProxy
    /\ IdleLate
    /\ NotStarted
    /\ cfg \in {c \in Configs : c.geminiKey /\ c.genaiInstalled /\ c.tuziKey}
    /\ transcript = <<>>
    /\ precheck = "ok"
    /\ cache = NoFile
    /\ refReadable = TRUE
    /\ pc = "resolve"
    /\ InitRun

ResolveReference ==
    /\ pc = "resolve"
    /\ refRet = "pending"
    /\ refRet' = get_room_reference_image(fs)
    /\ pc' = "resolved"
    /\ UNCHANGED <<cfg, transcript, precheck, cache, run, use, existing, comicText,
                   isGenerated, cacheWrites, refReadable, delay, outFiles, escaped,
                   result, fs, pollIn, pollRet, shots, images, main, tmp, orch,
                   cfgAtStart, proxyCfg, environ, tuziVia, hf, gen, out>>
    /\ UNCHANGED textVars
    /\ UNCHANGED imageVars

NextRef == ResolveReference

SpecRef == InitRef /\ [][NextRef]_vars

\* ------------------------------------------ one polling iteration on its own
\* Every JSON body of the task URL, by the fields the code reads.
AllPollBodies ==
    [kind : {"json"},
     status : {"completed", "failed", "processing", "missing"},
     urls : {"absent", "empty", "one"},
     gens : {"absent", "empty", "url"}]

\* Lines 276-329 for one 200 answer with a JSON body and one download outcome.
InitPollBody ==
    /\ pollIn \in [body : AllPollBodies, download : Downloads]
    /\ pollRet = "pending"
    /\ fs = NoFs
    /\ refRet = "unused"
    /\ shots = "unused"
    /\ images = <<>>
    /\ main = "unused"
    /\ tmp = "unused"
    /\ orch = "unused"
    /\ NoProxy
    /\ IdleLate
    /\ NotStarted
    /\ cfg \in {c \in Configs : c.geminiKey /\ c.genaiInstalled /\ c.tuziKey}
    /\ transcript = <<>>
    /\ precheck = "ok"
    /\ cache = NoFile
    /\ refReadable = TRUE
    /\ pc = "classify"
    /\ InitRun

ClassifyPollBody ==
    /\ pc = "classify"
    /\ pollRet' = [complete |-> PollCompleted(pollIn.body),
                   src |-> IF PollCompleted(pollIn.body)
                           THEN ResolvedUrl(pollIn.body) ELSE "none",
                   verdict |-> PollVerdict(pollIn.body, pollIn.download),
                   step |-> PollStep(PollVerdict(pollIn.body, pollIn.download))]
    /\ pc' = "classified"
    /\ UNCHANGED <<cfg, transcript, precheck, cache, run, use, existing, comicText,
                   isGenerated, cacheWrites, refReadable, delay, outFiles, escaped,
                   result, fs, refRet, pollIn, shots, images, main, tmp, orch,
                   cfgAtStart, proxyCfg, environ, tuziVia, hf, gen, out>>
    /\ UNCHANGED textVars
    /\ UNCHANGED imageVars

NextPollBody == ClassifyPollBody

SpecPollBody == InitPollBody /\ [][NextPollBody]_vars

\* ------------------------------------------------------- collect_all_images
\* SCREENSHOT_PATH: unset (or empty), the path of a missing file, of a
\* screenshot file, or of the cover file; and whether <base>_SCREENSHOTS.jpg
\* exists next to the transcript.
ShotInputs == [env : {"unset", "missing", "shot_env", "cover"}, inferred : BOOLEAN]

InList(x, l) == \E i \in 1..Len(l) : l[i] = x

\* Line 285: the cover found for highlight_path, "none" without a path.
CoverFor(f) == IF f.hasHighlight /\ get_live_cover_image(f) # "none" THEN "cover" ELSE "none"

\* Lines 265-304.  Paths are compared as strings (`not in images`).
\* A collector that appends the cover without looking at the list.
collect_all_images_cover_twice(f, s) ==
    LET ref == get_room_reference_image(f)
        l1 == IF ref # "none" THEN <<ref>> ELSE <<>>
        l2 == IF CoverFor(f) # "none" THEN Append(l1, "cover") ELSE l1
        l3 == IF s.env \in {"shot_env", "cover"} /\ ~InList(s.env, l2)
              THEN Append(l2, s.env) ELSE l2
    IN  IF s.env = "unset" /\ f.hasHighlight /\ s.inferred /\ ~InList("shot_inferred", l3)
        THEN Append(l3, "shot_inferred") ELSE l3
collect_all_images(f, s) ==
    LET ref == get_room_reference_image(f)
        l1 == IF ref # "none" THEN <<ref>> ELSE <<>>
        l2 == IF CoverFor(f) # "none" /\ ~InList(CoverFor(f), l1)
              THEN Append(l1, CoverFor(f)) ELSE l1
        l3 == IF s.env \in {"shot_env", "cover"} /\ ~InList(s.env, l2)
              THEN Append(l2, s.env) ELSE l2
    IN  IF s.env = "unset" /\ f.hasHighlight /\ s.inferred /\ ~InList("shot_inferred", l3)
        THEN Append(l3, "shot_inferred") ELSE l3

\* A call of collect_all_images on its own; SCREENSHOT_PATH names the cover
\* file only where there is one.
InitCollect ==
    /\ fs \in RefInputs
    /\ shots \in {s \in ShotInputs : s.env = "cover" => CoverFor(fs) = "cover"}
    /\ images = <<>>
    /\ main = "unused"
    /\ tmp = "unused"
    /\ orch = "unused"
    /\ NoProxy
    /\ IdleLate
    /\ refRet = "unused"
    /\ pollIn = "unused"
    /\ pollRet = "unused"
    /\ NotStarted
    /\ cfg \in {c \in Configs : c.geminiKey /\ c.genaiInstalled /\ c.tuziKey}
    /\ transcript = <<>>
    /\ precheck = "ok"
    /\ cache = NoFile
    /\ refReadable = TRUE
    /\ pc = "collect"
    /\ InitRun

CollectImages ==
    /\ pc = "collect"
    /\ images' = collect_all_images(fs, shots)
    /\ pc' = "collected"
    /\ UNCHANGED <<cfg, transcript, precheck, cache, run, use, existing, comicText,
                   isGenerated, cacheWrites, refReadable, delay, outFiles, escaped,
                   result, fs, refRet, pollIn, pollRet, shots, main, tmp, orch,
                   cfgAtStart, proxyCfg, environ, tuziVia, hf, gen, out>>
    /\ UNCHANGED textVars
    /\ UNCHANGED imageVars

NextCollect == CollectImages

SpecCollect == InitCollect /\ [][NextCollect]_vars

\* ------------------------------------------------------ try_simpler_model
\* The rotation of try_simpler_model (lines 662-666).
simpler_models == <<"runwayml/stable-diffusion-v1-5", "CompVis/stable-diffusion-v1-4",
                    "prompthero/openjourney">>

\* What requests.post at line 690 and the handling of its answer come to: a
\* 200 whose body is saved ("ok"), a 200 whose temporary file cannot be
\* written ("write_error"), 503, another status (client or server error),
\* or an exception raised by the request (timeout, connection error).
SimplerOutcomes == {"ok", "write_error", "503", "4xx", "5xx", "timeout", "connection"}

\* Lines 691-710: what the loop body does with an answer of the model.  An
\* exception leaves the loop for the handler at line 715.
SimplerStep(o) ==
    CASE o = "ok" -> "return_file"
      [] o \in {"503", "4xx", "5xx"} -> "continue"
      [] OTHER -> "except"

\* try_simpler_model(prompt, hf_config, proxies), called by
\* call_huggingface_comic_factory (line 1080) after a status other than 200
\* and 503, with or without a proxy.
InitSimpler ==
    /\ IdleUnits
    /\ NoProxy
    /\ IdleRun
    /\ InitRun
    /\ pc = "simpler"
    /\ gen = "unused"
    /\ out = "unused"
    /\ hf \in {[cause |-> st, proxy |-> px, i |-> 1, tried |-> <<>>, answers |-> <<>>,
                 ret |-> None] : st \in {"4xx", "5xx"}, px \in BOOLEAN}

\* One iteration of the loop at line 668; after the last model the loop ends
\* and line 712-713 returns None.
SimplerRequest ==
    /\ pc = "simpler"
    /\ hf.ret = None
    /\ hf.i <= Len(simpler_models)
    /\ \E o \in SimplerOutcomes :
         hf' = [hf EXCEPT
                  !.tried = Append(@, simpler_models[hf.i]),
                  !.answers = Append(@, o),
                  !.i = IF SimplerStep(o) = "continue" THEN @ + 1 ELSE @,
                  !.ret = CASE SimplerStep(o) = "return_file" -> Some("file")
                            [] SimplerStep(o) = "except" -> Some("none")
                            [] OTHER -> IF hf.i = Len(simpler_models)
                                        THEN Some("none") ELSE None]
    /\ UNCHANGED <<cfg, transcript, precheck, cache, run, pc, use, existing, comicText,
                   isGenerated, cacheWrites, refReadable, delay, outFiles, escaped,
                   result, fs, refRet, pollIn, pollRet, shots, images, main, tmp, orch,
                   cfgAtStart, proxyCfg, environ, tuziVia, gen, out>>
    /\ UNCHANGED textVars
    /\ UNCHANGED imageVars

NextSimpler == SimplerRequest

SpecSimpler == InitSimpler /\ [][NextSimpler]_vars

\* ---------------------------------------------- call_tuzi_image_generations
\* max_retries at tuzi_image_generations.py line 114.
max_retries == 3

\* Lines 120-128: payload["model"] of the attempt (0-based); m is the model
\* argument.
\* A payload that keeps the model argument on every attempt.
GenerationModel_fixed(m, a) == m
GenerationModel(m, a) ==
    CASE a = 1 -> "gpt-image-1.5"
      [] a = 2 -> "gemini-2.5-flash-image-vip"
      [] a = 3 -> "gemini-3-pro-image-preview/nano-banana-2"
      [] OTHER -> m

\* What one attempt comes to (lines 130-217): the request raises, a status
\* other than 200, a 200 whose body is not JSON, a body without a usable data
\* list, a first entry with neither url nor b64_json, a url downloaded, a url
\* answered with another status, a download that raises, a base64 block
\* decoded and saved, a block that cannot be decoded.
GenerationOutcomes == {"exc", "status", "badjson", "no_data", "neither", "url_ok",
                       "url_status", "url_exc", "b64_ok", "b64_bad"}

GenerationSuccess == {"url_ok", "b64_ok"}

\* An attempt returns the temporary file or leaves the attempt as failed.
GenerationStep(o) == IF o \in GenerationSuccess THEN "return_file" ELSE "failed"

\* call_tuzi_image_generations(prompt, reference_image_path, model, ...) at
\* the entry of its loop, with the default model or another one.
InitGenerations ==
    /\ IdleUnits
    /\ NoProxy
    /\ IdleRun
    /\ InitRun
    /\ pc = "generations"
    /\ hf = "unused"
    /\ out = "unused"
    /\ gen \in {[model |-> m, reference |-> r, attempt |-> 0, log |-> <<>>,
                  answers |-> <<>>, slept |-> 0, ret |-> None] :
                     m \in ConfiguredModels, r \in BOOLEAN}

\* One iteration of the loop at line 117.  A failed attempt sleeps 2 s and
\* goes on if attempt < max_retries; after the last one the function returns
\* None (lines 167, 176, 198, 207, 219-222 and the end of the function).
GenerationAttempt ==
    /\ pc = "generations"
    /\ gen.ret = None
    /\ gen.attempt <= max_retries
    /\ \E o \in GenerationOutcomes :
         gen' = [gen EXCEPT
                   !.log = Append(@, GenerationModel(gen.model, gen.attempt)),
                   !.answers = Append(@, o),
                   !.attempt = IF GenerationStep(o) = "failed" /\ @ < max_retries
                               THEN @ + 1 ELSE @,
                   !.slept = IF GenerationStep(o) = "failed" /\ gen.attempt < max_retries
                             THEN 2 ELSE 0,
                   !.ret = IF GenerationStep(o) = "return_file" THEN Some("file")
                           ELSE IF gen.attempt < max_retries THEN None
                           ELSE Some("none")]
    /\ UNCHANGED <<cfg, transcript, precheck, cache, run, pc, use, existing, comicText,
                   isGenerated, cacheWrites, refReadable, delay, outFiles, escaped,
                   result, fs, refRet, pollIn, pollRet, shots, images, main, tmp, orch,
                   cfgAtStart, proxyCfg, environ, tuziVia, hf, out>>
    /\ UNCHANGED textVars
    /\ UNCHANGED imageVars

NextGenerations == GenerationAttempt

SpecGenerations == InitGenerations /\ [][NextGenerations]_vars

\* ------------------------------------------------------- save_comic_result
\* The candidates of generate_unique_filename for one output path: 1 is
\* <base>_COMIC_FACTORY.png, k + 1 the same name with the suffix _k.
Candidates == 1..(MaxFiles + MaxRuns + 1)

\* Content of a candidate: absent, a file found there, or what the n-th call
\* wrote (n + 1).
Absent == 0
Old == 1

\* The candidates that exist in directory d.
Existing(d) == {k \in Candidates : d[k] # Absent}

\* comic_data as save_comic_result tells it apart (lines 1094-1129): a path
\* of a file that exists, a URL answered with 200 or with another status, a
\* data:image text with or without a base64 part, anything else.
ComicData == {"file", "url_ok", "url_status", "base64", "base64_nomatch", "other"}

\* Whether save_comic_result writes unique_path for such a comic_data: a
\* failed download raises (line 1111), a data:image text without a base64
\* part is passed over (line 1118).
SaveWrites(d) == d \notin {"url_status", "base64_nomatch"}

\* Calls of save_comic_result(output_path, comic_data), one after another,
\* in a directory that holds any of the first candidates already.
InitSave ==
    /\ IdleUnits
    /\ NoProxy
    /\ IdleRun
    /\ InitRun
    /\ pc = "save"
    /\ hf = "unused"
    /\ gen = "unused"
    /\ out \in {[files |-> [k \in Candidates |-> IF k \in s THEN Old ELSE Absent],
                  calls |-> 0, data |-> "none", ret |-> 0] :
                    s \in SUBSET (1..MaxFiles)}

\* The frame of the steps that work on the output directory only.
SaveFrame ==
    /\ UNCHANGED <<cfg, transcript, precheck, cache, run, pc, use, existing, comicText,
                   isGenerated, cacheWrites, refReadable, delay, outFiles, escaped,
                   result, fs, refRet, pollIn, pollRet, shots, images, main, tmp, orch,
                   cfgAtStart, proxyCfg, environ, tuziVia, hf, gen>>
    /\ UNCHANGED textVars
    /\ UNCHANGED imageVars

\* One call of save_comic_result, lines 1087-1134; ret is the candidate
\* returned, 0 when the call raised or returned nothing.
SaveComicResult ==
    /\ pc = "save"
    /\ out.calls <= MaxRuns
    /\ \E d \in ComicData :
         out' = [out EXCEPT
                   !.calls = @ + 1,
                   !.data = d,
                   !.files = IF SaveWrites(d)
                             THEN [@ EXCEPT ![generate_unique_filename(Existing(out.files))]
                                              = out.calls + 2]
                             ELSE @,
                   !.ret = IF SaveWrites(d)
                           THEN generate_unique_filename(Existing(out.files))
                           ELSE 0]
    /\ SaveFrame

NextSave == SaveComicResult

SpecSave == InitSave /\ [][NextSave]_vars

\* --------------------------------------------------------------------- main
\* The command lines main() tells apart (lines 1254-1283, 1289-1299, 1318-1320).
ArgCases == {"no_args", "batch_no_dir", "batch_missing_dir", "batch",
             "single_no_path", "single"}

\* What a call of generate_comic_from_highlight comes to for main: a file
\* path, None, or an exception (load_config at line 1140 is outside the try).
CallOutcomes == {"file", "none", "raise"}

\* Exit status of the single-file branch (lines 1322-1331): falling off the
\* end of main, sys.exit(0), or the handler at line 1328 with sys.exit(1).
SingleExit(o) == IF o = "raise" THEN 1 ELSE 0

\* The try/except around each file of the batch (lines 1307-1315).
\* A batch loop whose handler lets the exception out.
BatchExcept_reraises(o) == IF o = "raise" THEN "abort" ELSE "continue"
BatchExcept(o) == "continue"

\* A run of main().
InitMain ==
    /\ main \in {[args |-> a, n |-> k, outcomes |-> <<>>, success_count |-> 0,
                  exit |-> None] :
                    a \in ArgCases, k \in 0..MaxFiles}
    /\ main.args # "batch" => main.n = 0
    /\ fs = NoFs
    /\ refRet = "unused"
    /\ pollIn = "unused"
    /\ pollRet = "unused"
    /\ shots = "unused"
    /\ images = <<>>
    /\ tmp = "unused"
    /\ orch = "unused"
    /\ NoProxy
    /\ IdleLate
    /\ NotStarted
    /\ cfg \in {c \in Configs : c.geminiKey /\ c.genaiInstalled /\ c.tuziKey}
    /\ transcript = <<>>
    /\ precheck = "ok"
    /\ cache = NoFile
    /\ refReadable = TRUE
    /\ pc = "main"
    /\ InitRun

MainFrame ==
    /\ UNCHANGED <<cfg, transcript, precheck, cache, run, use, existing, comicText,
                   isGenerated, cacheWrites, refReadable, delay, outFiles, escaped,
                   result, fs, refRet, pollIn, pollRet, shots, images, tmp, orch,
                   cfgAtStart, proxyCfg, environ, tuziVia, hf, gen, out>>
    /\ UNCHANGED textVars
    /\ UNCHANGED imageVars

\* Lines 1254-1283 and the single-file branch, lines 1317-1331.
MainStart ==
    /\ pc = "main"
    /\ CASE main.args = "batch" ->
               /\ pc' = "batch"
               /\ UNCHANGED main
         [] main.args = "single" ->
               \E o \in CallOutcomes :
                   /\ main' = [main EXCEPT !.outcomes = <<o>>, !.exit = Some(SingleExit(o)),
                                           !.success_count = IF o = "file" THEN 1 ELSE 0]
                   /\ pc' = "exited"
         [] OTHER ->
               /\ main' = [main EXCEPT !.exit = Some(1)]
               /\ pc' = "exited"
    /\ MainFrame

\* One iteration of the batch loop, lines 1305-1315.
BatchFile ==
    /\ pc = "batch"
    /\ Len(main.outcomes) < main.n
    /\ \E o \in CallOutcomes :
         IF BatchExcept(o) = "continue"
         THEN /\ main' = [main EXCEPT !.outcomes = Append(@, o),
                                      !.success_count = @ + (IF o = "file" THEN 1 ELSE 0)]
              /\ pc' = "batch"
         ELSE \* the handler at line 1328
              /\ main' = [main EXCEPT !.outcomes = Append(@, o), !.exit = Some(1)]
              /\ pc' = "exited"
    /\ MainFrame

\* Lines 1317-1319 and the return of main.
BatchEnd ==
    /\ pc = "batch"
    /\ Len(main.outcomes) = main.n
    /\ main' = [main EXCEPT !.exit = Some(0)]
    /\ pc' = "exited"
    /\ MainFrame

NextMain == MainStart \/ BatchFile \/ BatchEnd

SpecMain == InitMain /\ [][NextMain]_vars

\* ------------------------------------------- concurrent temporary artifacts
\* Orchestrations that run at the same time, in processes or threads of the
\* caller's choosing, over one temporary directory.
Orchs == 1..MaxOrch

\* The file names of lines 300 and 348 / 372 / 402: tempfile.gettempdir()
\* joined with a prefix and the first eight hex digits of a random UUID.
temp_file(p, prefix, suffix) == [prefix |-> prefix, suffix |-> suffix]

InitTemp ==
    /\ tmp = [n \in {} |-> 0]
    /\ orch = [p \in Orchs |-> [pc |-> "request", file |-> None, copied |-> 0]]
    /\ NoProxy
    /\ IdleLate
    /\ fs = NoFs
    /\ refRet = "unused"
    /\ pollIn = "unused"
    /\ pollRet = "unused"
    /\ shots = "unused"
    /\ images = <<>>
    /\ main = "unused"
    /\ NotStarted
    /\ cfg \in {c \in Configs : c.geminiKey /\ c.genaiInstalled /\ c.tuziKey}
    /\ transcript = <<>>
    /\ precheck = "ok"
    /\ cache = NoFile
    /\ refReadable = TRUE
    /\ pc = "concurrent"
    /\ InitRun

TempFrame ==
    /\ UNCHANGED <<cfg, transcript, precheck, cache, run, pc, use, existing, comicText,
                   isGenerated, cacheWrites, refReadable, delay, outFiles, escaped,
                   result, fs, refRet, pollIn, pollRet, shots, images, main,
                   cfgAtStart, proxyCfg, environ, tuziVia, hf, gen, out>>
    /\ UNCHANGED textVars
    /\ UNCHANGED imageVars

\* open(temp_file, 'wb') and write (lines 301-302, 350-351, 374-375, 404-405):
\* the file is created or truncated and then holds the download of p.
WriteTemp(p) ==
    /\ orch[p].pc = "request"
    /\ \E prefix \in {"comic_tuzi_async", "comic_tuzi"}, suffix \in 1..SuffixSpace :
         LET name == temp_file(p, prefix, suffix)
         IN  /\ tmp' = [n \in DOMAIN tmp \cup {name} |-> IF n = name THEN p ELSE tmp[n]]
             /\ orch' = [orch EXCEPT ![p] = [pc |-> "returned", file |-> Some(name),
                                              copied |-> 0]]
    /\ TempFrame

\* save_comic_result, ai_comic_generator.py line 1097: the caller copies
\* whatever the temporary file holds by then.
CopyTemp(p) ==
    /\ orch[p].pc = "returned"
    /\ orch' = [orch EXCEPT ![p] = [pc |-> "saved", file |-> orch[p].file,
                                     copied |-> tmp[Val(orch[p].file)]]]
    /\ UNCHANGED tmp
    /\ TempFrame

NextTemp == \E p \in Orchs : WriteTemp(p) \/ CopyTemp(p)

SpecTemp == InitTemp /\ [][NextTemp]_vars

\* ----------------------------------------- concurrent runs on one transcript
\* Runs of generate_comic_from_highlight on the same transcript at the same
\* time, each past build_comic_prompt with a generated, non-empty script (or
\* the cached one).  The cache file and the output directory are shared;
\* cache is 0 while <base>_COMIC_SCRIPT.txt is absent, Old for a file found,
\* p + 1 for the script run p wrote.
InitRace ==
    /\ IdleUnits
    /\ NoProxy
    /\ IdleRun
    /\ InitRun
    /\ pc = "race"
    /\ hf = "unused"
    /\ gen = "unused"
    /\ out \in {[files |-> [k \in Candidates |-> IF k \in s THEN Old ELSE Absent],
                  cache |-> c, cacheWrites |-> 0,
                  runs |-> [p \in Orchs |-> [pc |-> "check", path |-> 0]]] :
                    s \in SUBSET (1..MaxFiles), c \in {Absent, Old}}

\* Line 1206: `not os.path.exists(text_output_path)` (comic_text and
\* is_comic_generated hold here).
CheckCache(p) ==
    /\ pc = "race"
    /\ out.runs[p].pc = "check"
    /\ out' = [out EXCEPT !.runs[p].pc = IF out.cache = Absent THEN "write_cache"
                                         ELSE "images"]
    /\ SaveFrame

\* Lines 1207-1208: open(text_output_path, 'w') and write.
WriteCache(p) ==
    /\ pc = "race"
    /\ out.runs[p].pc = "write_cache"
    /\ out' = [out EXCEPT !.cache = p + 1,
                          !.cacheWrites = @ + 1,
                          !.runs[p].pc = "images"]
    /\ SaveFrame

\* Lines 1214-1236: the image providers return an artifact or nothing.
RaceImages(p) ==
    /\ pc = "race"
    /\ out.runs[p].pc = "images"
    /\ \E got \in BOOLEAN :
         out' = [out EXCEPT !.runs[p].pc = IF got THEN "pick" ELSE "done"]
    /\ SaveFrame

\* Line 1091: unique_path = generate_unique_filename(output_path).
PickName(p) ==
    /\ pc = "race"
    /\ out.runs[p].pc = "pick"
    /\ out' = [out EXCEPT !.runs[p].pc = "copy",
                          !.runs[p].path = generate_unique_filename(Existing(out.files))]
    /\ SaveFrame

\* Lines 1094-1099: shutil.copy2(comic_data, unique_path).
CopyImage(p) ==
    /\ pc = "race"
    /\ out.runs[p].pc = "copy"
    /\ out' = [out EXCEPT !.files[out.runs[p].path] = p + 1,
                          !.runs[p].pc = "saved"]
    /\ SaveFrame

NextRace ==
    \E p \in Orchs :
        \/ CheckCache(p)
        \/ WriteCache(p)
        \/ RaceImages(p)
        \/ PickName(p)
        \/ CopyImage(p)

SpecRace == InitRace /\ [][NextRace]_vars

\* ------------------------------------------------------------------ claims

\* C1: in a run whose script stage came back with wasGenerated = false no
\* image provider (call_google_image_api, call_tuzi_image_api) is called, no
\* image request is sent, and the run ends with no result.
C1_NoImageCallWithoutScript ==
    (isGenerated = Some(FALSE)) =>
        /\ googleCalls = 0 /\ googleRequests = 0
        /\ tuziCalls = 0 /\ reqLog = <<>>
        /\ pc \in {"gate", "done"}
        /\ (pc = "done" => result = 0)

C1_Witness ==
    /\ isGenerated = Some(FALSE)
    /\ pc = "done"
    /\ use.tuzi /\ cfg.tuziKey
    /\ escaped = "none"

\* C2: a response that carries the 'Gemini Error' marker counts as a failed
\* attempt and is never returned as the script with wasGenerated = true; a
\* script returned with wasGenerated = true carries no marker.
C2_MarkerNeverAccepted ==
    /\ (lastResp # None /\ (\E i \in DOMAIN Val(lastResp) : Val(lastResp)[i] = "E")) =>
          /\ lastOutcome = "marker"
          /\ ~(scriptRet # None /\ Val(scriptRet).flag)
    /\ (scriptRet # None /\ Val(scriptRet).flag) =>
          \A i \in DOMAIN Val(scriptRet).text : Val(scriptRet).text[i] # "E"

C2_Witness ==
    /\ lastResp # None
    /\ \E i \in DOMAIN Val(lastResp) : Val(lastResp)[i] = "E"
    /\ primaryCalls > 0
    /\ secondaryCalls > 0
    /\ scriptRet # None

\* C3 as stated: whenever the script-cache file exists, no text provider is
\* called while the script is obtained.
C3_AnyCacheFileSkipsProviders ==
    (pc \in {"node", "primary", "secondary", "gate"} /\ cache.exists) =>
        (primaryCalls = 0 /\ secondaryCalls = 0)

\* C3 amended: when the script-cache file exists, is readable and its content
\* is not blank, the script stage calls no text provider and hands on the
\* cached text as the generated script; this holds for the second call too.
C3_UsableCacheSkipsProviders ==
    (/\ pc \in {"node", "primary", "secondary", "gate"}
     /\ cache.exists /\ cache.readable /\ Strip(cache.text) # <<>>) =>
        /\ pc = "gate"
        /\ primaryCalls = 0 /\ secondaryCalls = 0 /\ scriptRet = None
        /\ comicText = Some(cache.text)
        /\ isGenerated = Some(TRUE)

C3_Witness ==
    /\ run = 2
    /\ pc = "gate"
    /\ cache.exists
    /\ cache.text \notin CacheTexts
    /\ comicText = Some(cache.text)
    /\ primaryCalls = 0 /\ secondaryCalls = 0

\* C4: the secondary provider is first called only after the primary was
\* skipped for a missing import or its attempts ended, and the raw transcript
\* is returned only after the secondary provider has been tried and exhausted.
C4_CascadeOrder ==
    /\ (secondaryCalls > 0 => primaryEnd \in {"import_missing", "exhausted"})
    /\ (scriptRet # None /\ ~Val(scriptRet).flag) => secondaryEnd = "exhausted"

\* C5: when the providers are exhausted (and on every other return with
\* wasGenerated = false) the returned text is the transcript, unchanged.
C5_FallbackIsTranscript ==
    (scriptRet # None /\ (secondaryEnd = "exhausted" \/ ~Val(scriptRet).flag)) =>
        Val(scriptRet) = [text |-> transcript, flag |-> FALSE]

C5_Witness ==
    /\ scriptRet # None
    /\ primaryEnd = "exhausted"
    /\ secondaryEnd = "exhausted"
    /\ secondaryCalls = 3
    /\ Strip(transcript) # transcript

\* C6 as stated: after three timed-out primary attempts, a first secondary
\* response T that is non-empty and free of the marker is returned as (T, true).
C6_AnyNonEmptyTextReturned ==
    (/\ primaryTimeouts = 3 /\ secondaryCalls = 1
     /\ lastResp # None /\ Val(lastResp) # <<>>
     /\ \A i \in DOMAIN Val(lastResp) : Val(lastResp)[i] # "E") =>
        /\ scriptRet = Some([text |-> Val(lastResp), flag |-> TRUE])
        /\ primaryCalls = 3

\* C6 amended: after three timed-out primary attempts, a first secondary
\* response T that is not blank and free of the marker is returned trimmed,
\* as (trim(T), true), and exactly three primary requests preceded it.
C6_TrimmedTextReturned ==
    (/\ primaryTimeouts = 3 /\ secondaryCalls = 1
     /\ lastResp # None /\ Strip(Val(lastResp)) # <<>>
     /\ \A i \in DOMAIN Val(lastResp) : Val(lastResp)[i] # "E") =>
        /\ scriptRet = Some([text |-> Strip(Val(lastResp)), flag |-> TRUE])
        /\ primaryCalls = 3
        /\ primaryEnd = "exhausted"

C6_Witness ==
    /\ primaryTimeouts = 3
    /\ secondaryCalls = 1
    /\ lastResp # None
    /\ Strip(Val(lastResp)) # <<>>
    /\ Strip(Val(lastResp)) # Val(lastResp)
    /\ scriptRet # None
    /\ Val(scriptRet).flag

\* C7: one call of generate_comic_content_with_ai sends at most three
\* requests to the primary and at most three to the secondary provider.
C7_AtMostThreeCallsEach ==
    primaryCalls <= 3 /\ secondaryCalls <= 3

C7_Witness ==
    primaryCalls = 3 /\ secondaryCalls = 3 /\ scriptRet # None

\* C8: an empty response ends text generation with the raw transcript only
\* when no attempt and no provider is left.
C8_EmptyResponseRecovered ==
    (lastOutcome = "empty" /\ scriptRet # None /\ ~Val(scriptRet).flag) =>
        secondaryEnd = "exhausted"

\* C9: the cascades run in order and stop at the first success: no text
\* request follows an accepted script, the primary text provider is not
\* called after the secondary, the Google image provider is not called after
\* tuZi, and once an artifact is in hand no provider is called, no image
\* request is sent and no task is polled.
C9_StopAtFirstSuccess ==
    [][ /\ (scriptRet # None /\ Val(scriptRet).flag) =>
              (primaryCalls' <= primaryCalls /\ secondaryCalls' <= secondaryCalls)
        /\ (primaryCalls' > primaryCalls) => secondaryCalls = 0
        /\ (googleCalls' > googleCalls) => tuziCalls = 0
        /\ (comicResult # NoArtifact) =>
              /\ googleCalls' <= googleCalls
              /\ tuziCalls' <= tuziCalls
              /\ Len(reqLog') <= Len(reqLog)
              /\ polls' <= polls ]_vars

C9_Witness ==
    /\ comicResult # NoArtifact
    /\ pc = "finish"
    /\ googleCalls = 1
    /\ tuziCalls = 1
    /\ delay = 0
    /\ reqLog = <<>>

\* C10: whatever the providers do, no exception leaves
\* generate_comic_content_with_ai, call_tuzi_image_api or
\* call_tuzi_chat_completions_for_image: the script stage hands on a
\* (text, flag) pair and the image stage an artifact or no result.
C10_NeverRaises ==
    /\ escaped = "none"
    /\ (pc = "gate" => comicText # None /\ isGenerated # None)
    /\ (pc = "finish" /\ comicResult # NoArtifact) =>
          comicResult.src \in {"google", "async", "url", "b64", "tool"}

C10_Witness ==
    /\ pc = "finish"
    /\ comicResult = NoArtifact
    /\ tuziCalls = 1
    /\ Len(reqLog) >= 4
    /\ escaped = "none"

\* C11: for a room whose configured reference image exists at neither
\* candidate path, with a cover image next to the transcript, the resolver
\* returns the cover; a default image is returned only when no cover image
\* can be found.
C11_CoverBeforeDefault ==
    (refRet \notin {"pending", "unused"}) =>
        /\ (/\ fs.roomListed /\ fs.refImage /\ ~fs.refAtRoot /\ ~fs.refAtScript
            /\ fs.hasHighlight /\ fs.cover # "none") => refRet = "cover"
        /\ (refRet \in {"default_root", "default_script", "default_dir"}) =>
              ~(fs.hasHighlight /\ fs.cover # "none")

\* C12: within one call of call_tuzi_image_api the chat-completions requests
\* go to the configured model first and then to the fallbacks in their fixed
\* order, and no model identifier receives a second request.
C12_OneRequestPerModel ==
    (tuziCalls > 0 /\ reqLog # <<>>) =>
        /\ reqLog[1] = models[1]
        /\ \A i \in 1..Len(reqLog) :
              /\ i <= Len(ModelsToTry(models[1]))
              /\ reqLog[i] = ModelsToTry(models[1])[i]
        /\ \A i, j \in 1..Len(reqLog) : i # j => reqLog[i] # reqLog[j]

\* C13: when the response carries the async task marker only the poller
\* decides the attempt: no bare-URL, base64 or tool-call extraction is made
\* on that response, so an artifact from such a response comes from polling.
C13_PollerOutcomeOnly ==
    /\ (probes # <<>> /\ probes[1] = "async") => probes = <<"async">>
    /\ comicResult.async => comicResult.src = "async"

\* C14: the encodings of a 200 response are probed in the order async task
\* marker, bare URL, base64 data URI, tool call, and the artifact returned
\* comes from the last encoding probed: none is tried after the one that
\* yielded it.
C14_ProbeOrder ==
    LET rank(e) == CASE e = "async" -> 1 [] e = "url" -> 2 [] e = "b64" -> 3 [] OTHER -> 4
    IN  /\ \A i \in 1..(Len(probes) - 1) : rank(probes[i]) < rank(probes[i + 1])
        /\ (pc = "finish" /\ comicResult # NoArtifact) =>
              /\ probes # <<>>
              /\ probes[Len(probes)] = comicResult.src

C14_Witness ==
    /\ pc = "finish"
    /\ comicResult.src = "tool"
    /\ probes = <<"async", "url", "b64", "tool">>

\* C15: a poll answered with status "failed" ends the polling run: the run is
\* left with that verdict after one poll more than the non-terminal polls
\* before it (three polls after two in-progress answers), and the task URL
\* is not requested again.
C15_FailedIsTerminal ==
    [][ /\ (lastPoll' = "failed") => (pc' = "after_poll" /\ polls' = pollElapsed' + 1)
        /\ (lastPoll = "failed") => polls' <= polls ]_vars

C15_Witness ==
    /\ lastPoll = "failed"
    /\ pc = "after_poll"
    /\ pollElapsed = 2
    /\ polls = 3

\* C16: every polling run ends, and it ends downloaded, failed (status
\* "failed", a completed task without a URL, a download answered with another
\* status than 200) or at the deadline; a poll that does not end the run is
\* followed by a wait of 3 s, and no poll is made once the deadline has passed.
C16_PollerTerminates ==
    /\ [][ /\ (pc = "poll" /\ pc' = "poll") =>
                (delay' = 3 /\ pollElapsed' = pollElapsed + 1 /\ polls' = polls + 1)
           /\ (pc = "poll" /\ pollElapsed >= PollBudget) =>
                (polls' = polls /\ lastPoll' = "deadline" /\ pc' = "after_poll")
           /\ (pc = "poll" /\ pc' # "poll") =>
                /\ lastPoll' \in {"downloaded", "failed", "no_url", "download_status",
                                  "deadline"}
                /\ (lastPoll' = "downloaded") <=> (pc' = "finish")
                /\ (lastPoll' = "deadline") => pollElapsed >= PollBudget ]_vars
    /\ (pc = "poll") ~> (pc # "poll")

C16_Witness ==
    /\ lastPoll = "deadline"
    /\ pc = "after_poll"
    /\ pollElapsed = PollBudget
    /\ polls = PollBudget

\* C17: after a completed task whose image URL was resolved, a download that
\* fails (another status than 200, or a transport error) ends the polling
\* run: the task URL is not requested again.
C17_DownloadFailureTerminal ==
    (lastPoll \in {"download_status", "download_exc"}) => pc = "after_poll"

\* C19: a poll that raised, came back with another status than 200 or with a
\* body that is no JSON does not end the polling run: a wait of 3 s follows,
\* and the next poll is made unless the deadline has passed.
C19_TransientPollErrorsRetried ==
    [][ /\ (lastPoll' \in {"exc", "status", "badjson"}) => (pc' = "poll" /\ delay' = 3)
        /\ (/\ pc = "poll" /\ lastPoll \in {"exc", "status", "badjson"}
            /\ pollElapsed < PollBudget) =>
              (polls' = polls + 1 \/ (pc' = "finish" /\ comicResult'.src = "async")) ]_vars

C19_Witness ==
    /\ pc = "poll"
    /\ lastPoll = "badjson"
    /\ polls = 2
    /\ delay = 3

\* C18: a poll body counts as complete when its status is "completed", or
\* when it has no status and a urls or generations field; the URL downloaded
\* is the first of urls, and the one of the first generations entry only
\* when urls is absent or empty.
C18_CompletionRule ==
    (pc = "classified") =>
        /\ pollRet.complete <=>
              \/ pollIn.body.status = "completed"
              \/ /\ pollIn.body.status = "missing"
                 /\ (pollIn.body.urls # "absent" \/ pollIn.body.gens # "absent")
        /\ pollRet.complete =>
              /\ (pollRet.src = "urls") <=> (pollIn.body.urls = "one")
              /\ (pollRet.src = "generations") =>
                    (pollIn.body.urls \in {"absent", "empty"} /\ pollIn.body.gens = "url")

\* C20: the file returned for an artifact obtained through a URL (bare URL,
\* tool-call URL, URL resolved by polling) holds exactly the bytes of the
\* body that URL answered with status 200.
C20_BytesAsServed ==
    (comicResult.src \in {"url", "tool", "async"}) =>
        comicResult.bytes = comicResult.served

C20_Witness ==
    /\ pc = "finish"
    /\ comicResult.src = "async"
    /\ comicResult.served = <<"r", "n", "b">>
    /\ comicResult.bytes = <<"r", "n", "b">>
    /\ lastPoll = "downloaded"

\* C21: a 200 response of the image provider whose content carries the
\* provider-error marker yields no artifact: whatever
\* call_tuzi_chat_completions_for_image returns was not taken from such a
\* response.
C21_ErrorMarkerRejected == comicResult.src # "none" => ~comicResult.marker

\* C22: the script stage ends in exactly one of three ways: the trimmed text
\* of the one response that ended the cascade with wasGenerated = true, the
\* cached script as read with no provider called, or the transcript as given
\* with wasGenerated = false; the text is never put together from two sources.
C22_Generated ==
    /\ scriptRet # None /\ isGenerated = Some(TRUE)
    /\ lastResp # None /\ comicText = Some(Strip(Val(lastResp)))
    /\ \/ primaryEnd = "success" /\ secondaryCalls = 0
       \/ secondaryEnd = "success"

C22_Reused ==
    /\ scriptRet = None /\ isGenerated = Some(TRUE)
    /\ ReusesExisting(existing) /\ comicText = existing
    /\ primaryCalls = 0 /\ secondaryCalls = 0

C22_Failed ==
    /\ scriptRet # None /\ isGenerated = Some(FALSE)
    /\ comicText = Some(transcript)

C22_ExactlyOneOutcome ==
    pc = "gate" =>
        Cardinality({i \in 1..3 : <<C22_Generated, C22_Reused, C22_Failed>>[i]}) = 1

C22_Witness ==
    /\ pc = "gate" /\ C22_Generated
    /\ primaryCalls = max_gemini_retries /\ secondaryCalls = 2
    /\ Len(Val(lastResp)) > Len(Val(comicText))

\* C23: whenever no configured reference image of the room is found on disk
\* and the reference-image directory holds an image named after the room,
\* the resolver returns that image, before the cover and any default image.
C23_RoomNamedImageFirst ==
    (refRet \notin {"pending", "unused"}) =>
        ((/\ ~(fs.roomListed /\ fs.refImage /\ (fs.refAtRoot \/ fs.refAtScript))
          /\ fs.roomFile # "none") => refRet = "room_dir")

\* C24: the list collect_all_images returns has no duplicates; the reference
\* get_room_reference_image found, if any, is at its head; the cover follows
\* only if it exists and is not that reference; a screenshot comes last and
\* only if SCREENSHOT_PATH names an existing file or, with SCREENSHOT_PATH
\* unset, <base>_SCREENSHOTS.jpg exists next to the transcript.
C24_OrderedImageList ==
    pc = "collected" =>
        LET ref == get_room_reference_image(fs)
            Shot(x) == x \in {"shot_env", "shot_inferred"}
        IN  /\ \A i, j \in 1..Len(images) : images[i] = images[j] => i = j
            /\ ref # "none" => (images # <<>> /\ images[1] = ref)
            /\ \A i \in 1..Len(images) :
                  /\ (i > 1 /\ images[i] = "cover") =>
                        (CoverFor(fs) = "cover" /\ ref # "cover" /\ i = 2)
                  /\ images[i] = "shot_env" => shots.env = "shot_env"
                  /\ images[i] = "shot_inferred" =>
                        (shots.env = "unset" /\ shots.inferred /\ fs.hasHighlight)
                  /\ Shot(images[i]) => i = Len(images)
                  /\ (i > 1 /\ ~Shot(images[i])) => (ref # "none" /\ images[i] = "cover")

C24_Witness ==
    /\ pc = "collected"
    /\ Len(images) = 3
    /\ images[1] = "room_root" /\ images[2] = "cover" /\ images[3] = "shot_inferred"

\* C25: a call that gave no result is a normal completion: main exits with
\* status 0 in single-file mode, and in batch mode a file that gave no result
\* or raised does not keep the remaining files from being processed.
C25_NoResultIsNormal ==
    (pc = "exited" /\ main.args \in {"single", "batch"}) =>
        /\ (main.args = "single" /\ main.outcomes = <<"none">>) => main.exit = Some(0)
        /\ main.args = "batch" => (Len(main.outcomes) = main.n /\ main.exit = Some(0))

C25_Witness ==
    /\ pc = "exited" /\ main.args = "batch" /\ main.exit = Some(0)
    /\ Len(main.outcomes) = 3
    /\ main.outcomes[1] = "raise" /\ main.outcomes[2] = "none"
    /\ main.outcomes[3] = "file" /\ main.success_count = 1

\* C26: the temporary file an orchestration was handed holds its own
\* download until the orchestration has copied it: no other orchestration
\* running at the same time overwrites it.
C26_NoClobber ==
    pc = "concurrent" =>
        \A p \in Orchs :
            /\ orch[p].pc = "returned" => tmp[Val(orch[p].file)] = p
            /\ orch[p].pc = "saved" => orch[p].copied = p

\* ------------------------------------------------------ configuration reads
\* C27: configuration is read once per request: every stage of the request
\* acts on the configuration as it was when the request started, so a text
\* provider is called only if its key was configured then, and is given up
\* as unconfigured only if its key was missing then.
C27_ConfigSnapshot ==
    cfgAtStart # None =>
        /\ primaryCalls > 0 => Val(cfgAtStart).geminiKey
        /\ primaryEnd = "no_key" => ~Val(cfgAtStart).geminiKey
        /\ secondaryCalls > 0 => Val(cfgAtStart).tuziKey
        /\ secondaryEnd = "not_configured" => ~Val(cfgAtStart).tuziKey

\* ------------------------------------------------------- network settings
\* C28: the proxy a tuZi text request goes through depends only on the proxy
\* configured for tuZi: the configured one if there is one, else none,
\* whatever an earlier Gemini call applied in the same process.
C28_ProxyOfOwnCallOnly ==
    tuziVia # "unsent" => tuziVia = IF proxyCfg.tuzi THEN "tuzi_proxy" ELSE "none"

\* --------------------------------------------------------- overall deadline
\* C29: once the time spent in a call of call_tuzi_image_api has reached the
\* timeout the caller gave it (polling stopped at its deadline), no further
\* model attempt is started.
C29_NoStepAfterDeadline ==
    [][(pc = "after_poll" /\ lastPoll = "deadline")
         => pc' \notin {"img_req", "img_enter"}]_vars

\* ------------------------------------------------------------- retry delay
\* C30: an attempt of the text cascade that follows a failed one starts after
\* a sleep of 5 s when the failure was a timeout and of 2 s otherwise, never
\* immediately.
C30_DelayBetweenAttempts ==
    (pc \in {"primary", "secondary"} /\ primaryCalls + secondaryCalls > 0)
        => delay = IF lastOutcome = "timeout" THEN 5 ELSE 2

\* ------------------------------------------------------------ script cache
\* C31: the script cache is read only if it exists and written only if it is
\* absent: a step changes the file only from absent to present, and what it
\* writes is the script a text provider succeeded with in this run, flagged
\* as generated; an existing file is never changed or removed.
C31_CacheReadIfExistsWriteIfAbsent ==
    [][/\ cache' # cache =>
            /\ ~cache.exists
            /\ cache'.exists
            /\ isGenerated = Some(TRUE)
            /\ "success" \in {primaryEnd, secondaryEnd}
            /\ cache'.text = Val(scriptRet).text
            /\ cache'.text # <<>>
       /\ (existing = None /\ existing' # None) => cache.exists]_vars

C31_Witness ==
    /\ pc = "google"
    /\ cacheWrites = 1
    /\ cache.exists
    /\ cache.text # <<>>

\* C33: when text generation has succeeded and no cache file exists, the
\* script is written to the cache before the first image-provider call: the
\* step that leaves the script gate towards the image providers leaves the
\* cache file in place, so that a later run finds it.
C33_ScriptCachedBeforeImages ==
    [][(pc = "gate" /\ isGenerated = Some(TRUE) /\ ~cache.exists)
          => (pc' = "google" /\ cache'.exists /\ cacheWrites' = 1)]_vars

\* C34: a script reported as generated is not blank: whenever
\* generate_comic_content_with_ai returns the flag true, the text it returns
\* has a non-whitespace character.
C34_GeneratedScriptNotBlank ==
    (scriptRet # None /\ Val(scriptRet).flag) => Strip(Val(scriptRet).text) # <<>>

\* C35: for a room whose enableComicGeneration is false the run returns no
\* result, calls no text or image provider, sends no request and writes
\* neither the script cache nor an image file.
C35_DisabledRoomDoesNothing ==
    precheck = "room_disabled" =>
        /\ primaryCalls = 0 /\ secondaryCalls = 0
        /\ googleCalls = 0 /\ googleRequests = 0
        /\ tuziCalls = 0 /\ reqLog = <<>> /\ polls = 0
        /\ cacheWrites = 0
        /\ outFiles = {}
        /\ result = 0
        /\ pc \in {"start", "done"}

C35_Witness ==
    precheck = "room_disabled" /\ pc = "done" /\ run = 2 /\ ~cache.exists

\* C38: call_google_image_api sends no request whatever the configuration,
\* also when the Google image provider is enabled, so an artifact is never
\* Google's and a run that returns a file has called tuZi.
C38_GoogleImageNeverRequests ==
    /\ googleRequests = 0
    /\ comicResult.src # "google"
    /\ (pc = "done" /\ result > 0) => tuziCalls = 1

C38_Witness ==
    pc = "done" /\ result > 0 /\ use.google /\ googleCalls = 1 /\ tuziCalls = 1

\* ------------------------------------------------- Hugging Face rotation
\* C32: try_simpler_model tries its models once each in list order until one
\* succeeds: a model that fails, whatever the failure, is followed by the
\* next model, and no result is reported only after every model of the list
\* has been requested once.
C32_EveryModelTriedOnce ==
    pc = "simpler" =>
        /\ hf.tried = SubSeq(simpler_models, 1, Len(hf.tried))
        /\ hf.ret = Some("none") => hf.tried = simpler_models
        /\ hf.ret = Some("file") => hf.answers[Len(hf.answers)] = "ok"

\* ------------------------------------------------ images/generations call
\* The models of the four attempts of a call whose model argument is m.
C39_Rotation(m) ==
    <<m, "gpt-image-1.5", "gemini-2.5-flash-image-vip",
      "gemini-3-pro-image-preview/nano-banana-2">>

C37_SaveNeverOverwrites ==
    [][pc = "save" =>
         /\ \A k \in Candidates :
               out.files[k] # Absent => out'.files[k] = out.files[k]
         /\ out'.ret # 0 =>
               /\ out.files[out'.ret] = Absent
               /\ \A j \in 1..(out'.ret - 1) : out.files[j] # Absent
               /\ out'.files[out'.ret] = out'.calls + 1]_vars

C37_Witness ==
    /\ pc = "save"
    /\ out.calls = 2
    /\ out.files[1] = Old /\ out.files[2] = 2 /\ out.files[3] = Old /\ out.files[4] = 3
    /\ out.ret = 4

\* C36: concurrent runs on the same transcript save their images to distinct
\* paths, each saved path holding the image of the run that returned it, and
\* at most one of the runs writes the script cache.
C36_ConcurrentRunsDistinctPaths ==
    pc = "race" =>
        /\ \A p \in Orchs :
              out.runs[p].pc = "saved" =>
                  /\ out.files[out.runs[p].path] = p + 1
                  /\ \A q \in Orchs \ {p} :
                        out.runs[q].pc = "saved" => out.runs[q].path # out.runs[p].path
        /\ out.cacheWrites <= 1

====
